---------------------------- MODULE Spec2Model ----------------------------
(***************************************************************************)
(* A model of the rustboy Game Boy emulator core: the CPU (cpu.rs), the    *)
(* memory map and interrupt registers (mem.rs), the LCD timing state       *)
(* machine (lcd.rs), the timer (timer.rs) and the host loop (main.rs).     *)
(*                                                                         *)
(* The machine is one record, gb, shaped like main.rs's Gameboy struct.    *)
(* Every operation of the source is a pure operator from a machine record  *)
(* to a machine record, named as in the source; the actions apply them.    *)
(*                                                                         *)
(* Memory.  vram, wram, oam, hram and the sound registers are plain byte   *)
(* stores that start zeroed; they are kept in one sparse map, mm.mem, from *)
(* the CPU address of a cell to its byte when that byte is not 0.  The     *)
(* echo range E000-FDFF is stored under the wram address it aliases.       *)
(*                                                                         *)
(* Cartridge.  The ROM image is an input.  The bytes the CPU fetches as    *)
(* instructions (opcode and immediates) while PC is in ROM are drawn from  *)
(* the sets a specification names; every other ROM byte is rom(addr).      *)
(*                                                                         *)
(* Integer width.  u8, u16 and u32 arithmetic is done on naturals and      *)
(* reduced explicitly.  Rust's unchecked +, - on integers wraps in a       *)
(* release build and panics in a debug build: a step in which such an      *)
(* operation overflows has both outcomes.                                  *)
(***************************************************************************)
EXTENDS Integers, Sequences, FiniteSets, TLC

VARIABLES
    gb,     \* the machine: cpu, mm, lcd, timer, joypad; panic, ovf
    last,   \* the step just taken: what ran, and the machine before it
    last2,  \* the step before that one
    host    \* the host loop's own locals (main.rs: prevcycles, ...)

vars == <<gb, last, last2, host>>

---------------------------------------------------------------------------
(* Fixed-width integers and bit operations. *)

U8 == 256
U16 == 65536

W8(x) == x % U8
W16(x) == x % U16

Bit(x, k) == (x \div (2 ^ k)) % 2

RECURSIVE BitAndN(_, _, _)
BitAndN(x, y, n) ==
    IF n = 0 THEN 0
    ELSE (x % 2) * (y % 2) + 2 * BitAndN(x \div 2, y \div 2, n - 1)

RECURSIVE BitOrN(_, _, _)
BitOrN(x, y, n) ==
    IF n = 0 THEN 0
    ELSE (IF (x % 2) + (y % 2) > 0 THEN 1 ELSE 0)
         + 2 * BitOrN(x \div 2, y \div 2, n - 1)

RECURSIVE BitXorN(_, _, _)
BitXorN(x, y, n) ==
    IF n = 0 THEN 0
    ELSE ((x + y) % 2) + 2 * BitXorN(x \div 2, y \div 2, n - 1)

And8(x, y) == BitAndN(x, y, 8)
Or8(x, y) == BitOrN(x, y, 8)
Xor8(x, y) == BitXorN(x, y, 8)
Not8(x) == 255 - x
And16(x, y) == BitAndN(x, y, 16)

Hi(x) == (x \div 256) % 256
Lo(x) == x % 256
Mk16(hi, lo) == hi * 256 + lo

\* `val as i8 as u16`: the sign extension of a byte to 16 bits.
SignExt(val) == IF val >= 128 THEN val + 65280 ELSE val

\* `val as i8`: the byte as a signed number.
AsI8(val) == IF val >= 128 THEN val - 256 ELSE val

---------------------------------------------------------------------------
(* cpu.rs: flag bits. *)

FLAG_ZERO == \h80
FLAG_SUBTRACT == \h40
FLAG_HALF_CARRY == \h20
FLAG_CARRY == \h10

(* interrupt.rs is not part of the sources at hand; the bit of each source *)
(* follows the order the specification lists them in (VBlank, LCDSTAT,     *)
(* Timer, Serial, Joypad), one bit each from bit 0.                        *)
INTERRUPT_VBLANK == \h01
INTERRUPT_LCD_STAT == \h02
INTERRUPT_TIMER == \h04
INTERRUPT_SERIAL == \h08
INTERRUPT_JOYPAD == \h10

(* lcd.rs: STAT bits. *)
LCD_STATUS_LY_COINCIDENCE_INTERRUPT == \h40
LCD_STATUS_MODE_2_OAM_INTERRUPT == \h20
LCD_STATUS_MODE_1_VBLANK_INTERRUPT == \h10
LCD_STATUS_MODE_0_HBLANK_INTERRUPT == \h08
LCD_STATUS_COINCIDENCE == 4

LCD_STATUS_MODE == \h03

(* timer.rs: TAC bits. *)
TIMER_TAC_TIMER_STOP == \h04
TIMER_TAC_INPUT_CLOCK_SELECT == \h03

(* joypad.rs *)
JOYPAD_SELECT_BUTTON_KEYS == \h20
JOYPAD_SELECT_DIRECTION_KEYS == \h10

---------------------------------------------------------------------------
(* Construction: Cpu::new, Lcd::new, Timer::new, Joypad::new and the       *)
(* MemoryMap literal of main.rs.                                           *)

CpuNew ==
    [a |-> \h01, f |-> \hb0, b |-> \h00, c |-> \h13, d |-> \h00, e |-> \hd8,
     h |-> \h00, l |-> \h00, sp |-> \hfffe, pc |-> \h100, cycles |-> 0,
     halt |-> FALSE]

LcdNew ==
    [ctl |-> 0, stat |-> 0, scy |-> 0, scx |-> 0, ly |-> 0, lyc |-> 0,
     wy |-> 0, wx |-> 0, bgp |-> 0, obp0 |-> 0, obp1 |-> 0, cycles |-> 0]

TimerNew ==
    [div |-> 0, tima |-> 0, tma |-> 0, tac |-> 0, last_tick |-> 0,
     last_div_tick |-> 0]

JoypadNew == [flags |-> \hff, pressed |-> {}]

MemoryMapNew ==
    [rom |-> [x \in {} |-> 0], mem |-> [x \in {} |-> 0],
     interrupt_enable |-> 0,
     interrupt_master_enable |-> FALSE, interrupt_flag |-> 0]

GameboyNew ==
    [cpu |-> CpuNew, mm |-> MemoryMapNew, lcd |-> LcdNew, timer |-> TimerNew,
     joypad |-> JoypadNew, panic |-> "", ovf |-> FALSE]

---------------------------------------------------------------------------
(* The cartridge image (main.rs reads it from the file named on the        *)
(* command line).  It is taken to hold banks of 0x4000 bytes, the first    *)
(* two at 0000-7FFF.  mm.rom holds the bytes of the image the cpu has      *)
(* fetched as instructions so far; every other byte follows a fixed        *)
(* pattern with every byte value in it, which tells the banks apart.       *)

rom(addr) == W8(addr + Hi(addr) + (addr \div \h4000))

RomGet(g, addr) ==
    IF addr \in DOMAIN g.mm.rom THEN g.mm.rom[addr] ELSE rom(addr)

InRom(addr) == addr < \h8000

(* The sparse byte store behind vram, wram, oam, hram and the sound        *)
(* registers: absent means 0, as the arrays start zeroed.                  *)

EmptyMem == [x \in {} |-> 0]

MemGet(m, k) == IF k \in DOMAIN m THEN m[k] ELSE 0

MemSet(m, k, v) ==
    IF v = 0
    THEN [x \in DOMAIN m \ {k} |-> m[x]]
    ELSE [x \in DOMAIN m \cup {k} |-> IF x = k THEN v ELSE m[x]]

\* The sound registers handle_ioport stores and returns as they are.
SoundPorts ==
    (\hff10 .. \hff14) \cup (\hff16 .. \hff19) \cup (\hff1a .. \hff1e)
    \cup (\hff20 .. \hff26)

OamRange == \hfe00 .. \hfe9f

\* The RAM a write lands in and a read returns from: vram, wram, its echo,
\* oam and hram.
InRam(addr) ==
    \/ addr \in \h8000 .. \h9fff
    \/ addr \in \hc000 .. \hfe9f
    \/ addr \in \hff80 .. \hfffe

---------------------------------------------------------------------------
(* joypad.rs *)

\* Joypad::set_flags: the low nibble is recomputed from the keys held.
set_flags(j) ==
    LET f0 == Or8(j.flags, \h0f)
        dirs == IF And8(f0, JOYPAD_SELECT_DIRECTION_KEYS) = 0
                THEN (IF "up" \in j.pressed THEN 4 ELSE 0)
                     + (IF "down" \in j.pressed THEN 8 ELSE 0)
                     + (IF "left" \in j.pressed THEN 2 ELSE 0)
                     + (IF "right" \in j.pressed THEN 1 ELSE 0)
                ELSE 0
        f1 == And8(f0, Not8(dirs))
        btns == IF And8(f1, JOYPAD_SELECT_BUTTON_KEYS) = 0
                THEN (IF "b" \in j.pressed THEN 2 ELSE 0)
                     + (IF "a" \in j.pressed THEN 1 ELSE 0)
                     + (IF "select" \in j.pressed THEN 4 ELSE 0)
                     + (IF "start" \in j.pressed THEN 8 ELSE 0)
                ELSE 0
    IN [j EXCEPT !.flags = And8(f1, Not8(btns))]

---------------------------------------------------------------------------
(* mem.rs: MemoryMap::handle_ioport and handle_addr, split into the read   *)
(* (write = false) and the write (write = true) they serve.                *)

handle_ioport_read(g, addr) ==
    CASE addr = \hff00 -> g.joypad.flags
      [] addr = \hff01 -> 0
      [] addr = \hff02 -> 0
      [] addr = \hff04 -> g.timer.div
      [] addr = \hff05 -> g.timer.tima
      [] addr = \hff06 -> g.timer.tma
      [] addr = \hff07 -> g.timer.tac
      [] addr \in SoundPorts -> MemGet(g.mm.mem, addr)
      [] addr = \hff40 -> g.lcd.ctl
      [] addr = \hff41 -> g.lcd.stat
      [] addr = \hff42 -> g.lcd.scy
      [] addr = \hff43 -> g.lcd.scx
      [] addr = \hff44 -> g.lcd.ly
      [] addr = \hff45 -> g.lcd.lyc
      [] addr = \hff46 -> 0
      [] addr = \hff47 -> g.lcd.bgp
      [] addr = \hff48 -> g.lcd.obp0
      [] addr = \hff49 -> g.lcd.obp1
      [] addr = \hff4a -> g.lcd.wy
      [] addr = \hff4b -> g.lcd.wx
      [] addr = \hff0f -> g.mm.interrupt_flag
      [] OTHER -> 0

\* MemoryMap::read
Read(g, addr) ==
    CASE addr \in \h0000 .. \h7fff -> RomGet(g, addr)
      [] addr \in \h8000 .. \h9fff -> MemGet(g.mm.mem, addr)
      [] addr \in \hc000 .. \hdfff -> MemGet(g.mm.mem, addr)
      [] addr \in \he000 .. \hfdff -> MemGet(g.mm.mem, addr - \h2000)
      [] addr \in \hfe00 .. \hfe9f -> MemGet(g.mm.mem, addr)
      [] addr \in \hfea0 .. \hfeff -> 0
      [] addr \in \hff00 .. \hff7f -> handle_ioport_read(g, addr)
      [] addr \in \hff80 .. \hfffe -> MemGet(g.mm.mem, addr)
      [] addr = \hffff -> g.mm.interrupt_enable
      [] OTHER -> 0

\* A dma that stops one byte short.
perform_dma_short(g, val) ==
    LET src(i) == Read(g, val * \h100 + i)
        kept == DOMAIN g.mm.mem \ (\hfe00 .. \hfe9e)
        set == {\hfe00 + i : i \in {j \in 0 .. \h9e : src(j) # 0}}
    IN [g EXCEPT !.mm.mem =
            [x \in kept \cup set |->
                IF x \in set THEN src(x - \hfe00) ELSE g.mm.mem[x]]]

\* MemoryMap::perform_dma: oam[i] = read(val * 0x100 + i) for i in 0..0xa0.
perform_dma(g, val) ==
    LET src(i) == Read(g, val * \h100 + i)
        kept == DOMAIN g.mm.mem \ OamRange
        set == {\hfe00 + i : i \in {j \in 0 .. \h9f : src(j) # 0}}
    IN [g EXCEPT !.mm.mem =
            [x \in kept \cup set |->
                IF x \in set THEN src(x - \hfe00) ELSE g.mm.mem[x]]]

handle_ioport_write(g, addr, val) ==
    CASE addr = \hff00 ->
            [g EXCEPT !.joypad = set_flags([g.joypad EXCEPT !.flags = val])]
      [] addr = \hff04 -> [g EXCEPT !.timer.div = val]
      [] addr = \hff05 -> [g EXCEPT !.timer.tima = val]
      [] addr = \hff06 -> [g EXCEPT !.timer.tma = val]
      [] addr = \hff07 -> [g EXCEPT !.timer.tac = val]
      [] addr \in SoundPorts -> [g EXCEPT !.mm.mem = MemSet(@, addr, val)]
      [] addr = \hff40 -> [g EXCEPT !.lcd.ctl = val]
      [] addr = \hff41 -> [g EXCEPT !.lcd.stat = val]
      [] addr = \hff42 -> [g EXCEPT !.lcd.scy = val]
      [] addr = \hff43 -> [g EXCEPT !.lcd.scx = val]
      [] addr = \hff44 -> [g EXCEPT !.lcd.ly = val]
      [] addr = \hff45 -> [g EXCEPT !.lcd.lyc = val]
      [] addr = \hff46 -> perform_dma(g, val)
      [] addr = \hff47 -> [g EXCEPT !.lcd.bgp = val]
      [] addr = \hff48 -> [g EXCEPT !.lcd.obp0 = val]
      [] addr = \hff49 -> [g EXCEPT !.lcd.obp1 = val]
      [] addr = \hff4a -> [g EXCEPT !.lcd.wy = val]
      [] addr = \hff4b -> [g EXCEPT !.lcd.wx = val]
      [] addr = \hff0f -> [g EXCEPT !.mm.interrupt_flag = val]
      [] OTHER -> g

\* write storing into the image below 0x8000.
Write_rom_writable(g, addr, val) ==
    IF addr < \h8000
    THEN [g EXCEPT !.mm.rom =
             [x \in DOMAIN @ \cup {addr} |-> IF x = addr THEN val ELSE @[x]]]
    ELSE g

\* write keeping what it is handed for the unusable area and the ports
\* without a register.
Write_unusable_stored(g, addr, val) ==
    IF addr \in \hfea0 .. \hff7f
    THEN [g EXCEPT !.mm.mem = MemSet(@, addr, val)]
    ELSE g

\* write with an echo range of its own, apart from wram.
Write_without_echo(g, addr, val) ==
    IF addr \in \hc000 .. \hfdff
    THEN [g EXCEPT !.mm.mem = MemSet(@, addr, val)]
    ELSE g

\* MemoryMap::write
Write(g, addr, val) ==
    CASE addr \in \h0000 .. \h7fff -> g
      [] addr \in \h8000 .. \h9fff -> [g EXCEPT !.mm.mem = MemSet(@, addr, val)]
      [] addr \in \hc000 .. \hdfff -> [g EXCEPT !.mm.mem = MemSet(@, addr, val)]
      [] addr \in \he000 .. \hfdff ->
            [g EXCEPT !.mm.mem = MemSet(@, addr - \h2000, val)]
      [] addr \in \hfe00 .. \hfe9f -> [g EXCEPT !.mm.mem = MemSet(@, addr, val)]
      [] addr \in \hfea0 .. \hfeff -> g
      [] addr \in \hff00 .. \hff7f -> handle_ioport_write(g, addr, val)
      [] addr \in \hff80 .. \hfffe -> [g EXCEPT !.mm.mem = MemSet(@, addr, val)]
      [] addr = \hffff -> [g EXCEPT !.mm.interrupt_enable = val]
      [] OTHER -> g

\* MemoryMap::di, MemoryMap::ei
di(g) == [g EXCEPT !.mm.interrupt_master_enable = FALSE]

ei(g) == [g EXCEPT !.mm.interrupt_master_enable = TRUE]

\* interrupt_triggered without its test of the master enable.
triggered_unmasked(g, interrupt) ==
    /\ And8(g.mm.interrupt_enable, interrupt) > 0
    /\ And8(g.mm.interrupt_flag, interrupt) > 0

\* interrupt_triggered letting a pending source end a HALT whatever the
\* master enable is.
triggered_wakes_halt(g, interrupt) ==
    /\ g.mm.interrupt_master_enable \/ g.cpu.halt
    /\ And8(g.mm.interrupt_enable, interrupt) > 0
    /\ And8(g.mm.interrupt_flag, interrupt) > 0

\* MemoryMap::interrupt_triggered, its result ...
triggered(g, interrupt) ==
    /\ g.mm.interrupt_master_enable
    /\ And8(g.mm.interrupt_enable, interrupt) > 0
    /\ And8(g.mm.interrupt_flag, interrupt) > 0

\* interrupt_triggered clearing every pending flag, not the one serviced.
interrupt_triggered_clear_all(g, interrupt) ==
    IF triggered(g, interrupt)
    THEN [g EXCEPT !.mm.interrupt_master_enable = FALSE,
                   !.mm.interrupt_flag = 0]
    ELSE g

\* ... and its effect on the memory map.
interrupt_triggered(g, interrupt) ==
    IF triggered(g, interrupt)
    THEN [g EXCEPT !.mm.interrupt_master_enable = FALSE,
                   !.mm.interrupt_flag = And8(@, Not8(interrupt))]
    ELSE g

---------------------------------------------------------------------------
(* cpu.rs: register pairs and flags.  c is the Cpu struct.                 *)

af(c) == Mk16(c.a, c.f)

\* set_af without the line `self.f &= 0xf0`.
set_af_unmasked(c, v) == [c EXCEPT !.a = Hi(v), !.f = Lo(v)]

\* The bottom four bits of f are always 0.
set_af(c, v) == [c EXCEPT !.a = Hi(v), !.f = And8(Lo(v), \hf0)]

bc(c) == Mk16(c.b, c.c)

\* set_bc with the bytes of val in the wrong registers.
set_bc_swapped(c, v) == [c EXCEPT !.b = Lo(v), !.c = Hi(v)]

set_bc(c, v) == [c EXCEPT !.b = Hi(v), !.c = Lo(v)]

de(c) == Mk16(c.d, c.e)

set_de(c, v) == [c EXCEPT !.d = Hi(v), !.e = Lo(v)]

hl(c) == Mk16(c.h, c.l)

set_hl(c, v) == [c EXCEPT !.h = Hi(v), !.l = Lo(v)]

zero(c) == And8(c.f, FLAG_ZERO) > 0

subtract(c) == And8(c.f, FLAG_SUBTRACT) > 0

half_carry(c) == And8(c.f, FLAG_HALF_CARRY) > 0

carry(c) == And8(c.f, FLAG_CARRY) > 0

set_flag(c, flag, val) ==
    [c EXCEPT !.f = IF val THEN Or8(@, flag) ELSE And8(@, Not8(flag))]

set_zero(c, val) == set_flag(c, FLAG_ZERO, val)

set_subtract(c, val) == set_flag(c, FLAG_SUBTRACT, val)

set_half_carry(c, val) == set_flag(c, FLAG_HALF_CARRY, val)

set_carry(c, val) == set_flag(c, FLAG_CARRY, val)

\* The four setters in the order given: z, n, h, c.
set_znhc(c, z, n, h, cy) ==
    set_carry(set_half_carry(set_subtract(set_zero(c, z), n), h), cy)

---------------------------------------------------------------------------
(* cpu.rs: the 8-bit ALU.  Each takes the Cpu and the operand.             *)

add(c, val) ==
    LET pa == c.a
        a == W8(pa + val)
    IN set_znhc([c EXCEPT !.a = a], a = 0, FALSE, (a % 16) < (pa % 16), a < pa)

\* adc leaving the carry out of the sum.
adc_without_carry(c, val) == add(c, val)

adc(c, val) ==
    LET cy == IF carry(c) THEN 1 ELSE 0
        pa == c.a
        a == W8(pa + val + cy)
    IN set_znhc([c EXCEPT !.a = a], a = 0, FALSE,
                (pa % 16) + (val % 16) + cy > \h0f,
                IF cy > 0 THEN a <= pa ELSE a < pa)

sub(c, val) ==
    LET pa == c.a
        a == W8(pa - val + U8)
    IN set_znhc([c EXCEPT !.a = a], a = 0, TRUE, (pa % 16) < (a % 16), a > pa)

\* sbc leaving the carry out of the difference.
sbc_without_carry(c, val) == sub(c, val)

sbc(c, val) ==
    LET cy == IF carry(c) THEN 1 ELSE 0
        pa == c.a
        a == W8(pa - val - cy + 2 * U8)
    IN set_znhc([c EXCEPT !.a = a], a = 0, TRUE,
                W8((pa % 16) - (val % 16) - cy + 2 * U8) > 200,
                IF cy > 0 THEN a >= pa ELSE a > pa)

and(c, val) ==
    LET a == And8(c.a, val)
    IN set_znhc([c EXCEPT !.a = a], a = 0, FALSE, TRUE, FALSE)

xor(c, val) ==
    LET a == Xor8(c.a, val)
    IN set_znhc([c EXCEPT !.a = a], a = 0, FALSE, FALSE, FALSE)

or(c, val) ==
    LET a == Or8(c.a, val)
    IN set_znhc([c EXCEPT !.a = a], a = 0, FALSE, FALSE, FALSE)

cp(c, val) ==
    LET a == c.a
        tmp == W8(a - val + U8)
    IN set_znhc(c, a = val, TRUE, (tmp % 16) > (a % 16), val > a)

(* Rotates and shifts return the new Cpu (flags) and the new value. *)

\* rlc shifting in the old carry, as rl does.
rlc_through_carry(c, val) ==
    [cpu |-> set_znhc(c, W8(val * 2) + (IF carry(c) THEN 1 ELSE 0) = 0,
                      FALSE, FALSE, val >= 128),
     val |-> W8(val * 2) + (IF carry(c) THEN 1 ELSE 0)]

rlc(c, val) ==
    LET top == And8(val, \h80)
        newval == IF top = 0 THEN W8(val * 2) ELSE Or8(W8(val * 2), 1)
        c1 == set_carry(c, top # 0)
    IN [cpu |-> set_half_carry(set_subtract(set_zero(c1, newval = 0), FALSE),
                               FALSE),
        val |-> newval]

rl(c, val) ==
    LET top == And8(val, \h80)
        newval == IF carry(c) THEN Or8(W8(val * 2), 1) ELSE W8(val * 2)
    IN [cpu |-> set_znhc(c, newval = 0, FALSE, FALSE, top # 0),
        val |-> newval]

sla(c, val) ==
    LET top == And8(val, \h80)
        newval == W8(val * 2)
    IN [cpu |-> set_znhc(c, newval = 0, FALSE, FALSE, top # 0),
        val |-> newval]

sra(c, val) ==
    LET low == And8(val, 1)
        carrytop == And8(val, \h80)
        newval == IF carrytop > 0 THEN Or8(val \div 2, \h80) ELSE val \div 2
    IN [cpu |-> set_znhc(c, newval = 0, FALSE, FALSE, low # 0),
        val |-> newval]

srl(c, val) ==
    LET low == And8(val, 1)
        newval == val \div 2
    IN [cpu |-> set_znhc(c, newval = 0, FALSE, FALSE, low # 0),
        val |-> newval]

rrc(c, val) ==
    LET low == And8(val, 1)
        newval == IF low = 1 THEN Or8(val \div 2, \h80) ELSE val \div 2
        c1 == set_carry(c, low = 1)
    IN [cpu |-> set_zero(set_half_carry(set_subtract(c1, FALSE), FALSE),
                         newval = 0),
        val |-> newval]

rr(c, val) ==
    LET low == And8(val, 1)
        newval == IF carry(c) THEN Or8(val \div 2, \h80) ELSE val \div 2
        c1 == set_carry(c, low = 1)
    IN [cpu |-> set_zero(set_half_carry(set_subtract(c1, FALSE), FALSE),
                         newval = 0),
        val |-> newval]

swap(c, val) ==
    LET top == val \div 16
        bottom == And8(val, \h0f)
    IN [cpu |-> set_znhc(c, top = 0 /\ bottom = 0, FALSE, FALSE, FALSE),
        val |-> Or8(W8(bottom * 16), top)]

inc(c, val) ==
    LET newval == W8(val + 1)
    IN [cpu |-> set_half_carry(set_subtract(set_zero(c, newval = 0), FALSE),
                               (newval % 16) = 0),
        val |-> newval]

\* inc16 without the wrap.
inc16_saturating(val) == IF val = \hffff THEN val ELSE val + 1

inc16(val) == W16(val + 1)

dec(c, val) ==
    LET newval == W8(val - 1 + U8)
    IN [cpu |-> set_half_carry(set_subtract(set_zero(c, newval = 0), TRUE),
                               (newval % 16) = \h0f),
        val |-> newval]

dec16(val) == W16(val - 1 + U16)

res(bit, reg) == And8(reg, Not8(2 ^ bit))

set(bit, reg) == Or8(reg, 2 ^ bit)

bit(c, n, reg) ==
    set_half_carry(set_subtract(set_zero(c, And8(reg, 2 ^ n) = 0), FALSE),
                   TRUE)

add_hl(c, val) ==
    LET v == hl(c)
        newval == W16(v + val)
        c1 == set_carry(set_half_carry(set_subtract(c, FALSE),
                            (v % \h1000) + (val % \h1000) > \hfff),
                        newval < v)
    IN set_hl(c1, newval)

\* daa with the correction of an addition whatever the Subtract flag.
daa_as_after_add(c) ==
    LET s1 == IF carry(c) \/ c.a > \h99
              THEN set_carry([c EXCEPT !.a = W8(@ + \h60)], TRUE)
              ELSE c
        s2 == IF half_carry(s1) \/ (s1.a % 16) > \h9
              THEN set_half_carry([s1 EXCEPT !.a = W8(@ + \h06)], FALSE)
              ELSE s1
    IN set_zero(s2, s2.a = 0)

daa(c) ==
    LET c1 ==
            IF ~subtract(c)
            THEN LET s1 == IF carry(c) \/ c.a > \h99
                           THEN set_carry([c EXCEPT !.a = W8(@ + \h60)], TRUE)
                           ELSE c
                 IN IF half_carry(s1) \/ (s1.a % 16) > \h9
                    THEN set_half_carry([s1 EXCEPT !.a = W8(@ + \h06)], FALSE)
                    ELSE s1
            ELSE IF carry(c) /\ half_carry(c)
            THEN set_half_carry([c EXCEPT !.a = W8(@ + \h9a)], FALSE)
            ELSE IF carry(c)
            THEN [c EXCEPT !.a = W8(@ + \ha0)]
            ELSE IF half_carry(c)
            THEN set_half_carry([c EXCEPT !.a = W8(@ + \hfa)], FALSE)
            ELSE c
    IN set_zero(c1, c1.a = 0)

---------------------------------------------------------------------------
(* cpu.rs: the stack, and the bookkeeping every opcode arm ends with.      *)
(* g.ovf records that an unchecked u16/u32 +, - of the step overflowed.    *)

Ovf(g, cond) == [g EXCEPT !.ovf = @ \/ cond]

\* stack_write_u16 storing the upper byte at the lower address.
stack_write_u16_big_endian(g, addr) ==
    LET sp == g.cpu.sp
        g1 == Write(g, W16(sp - 1 + U16), Lo(addr))
        g2 == Write(g1, W16(sp - 2 + U16), Hi(addr))
    IN Ovf([g2 EXCEPT !.cpu.sp = W16(sp - 2 + U16)], sp < 2)

\* mm.write(self.sp - 1, hi); mm.write(self.sp - 2, lo); self.sp -= 2
stack_write_u16(g, addr) ==
    LET sp == g.cpu.sp
        g1 == Write(g, W16(sp - 1 + U16), Hi(addr))
        g2 == Write(g1, W16(sp - 2 + U16), Lo(addr))
    IN Ovf([g2 EXCEPT !.cpu.sp = W16(sp - 2 + U16)], sp < 2)

\* stack_read_u16 taking the byte at sp for the upper one.
stack_read_u16_swapped(g) ==
    LET sp == g.cpu.sp
    IN [g |-> Ovf([g EXCEPT !.cpu.sp = W16(sp + 2)], sp + 2 >= U16),
        val |-> Mk16(Read(g, sp), Read(g, W16(sp + 1)))]

\* lower = mm.read(self.sp); upper = mm.read(self.sp + 1); self.sp += 2
stack_read_u16(g) ==
    LET sp == g.cpu.sp
        lower == Read(g, sp)
        upper == Read(g, W16(sp + 1))
    IN [g |-> Ovf([g EXCEPT !.cpu.sp = W16(sp + 2)], sp + 2 >= U16),
        val |-> Mk16(upper, lower)]

\* The cycle counter charged twice.
AddCycles_twice(g, n) ==
    [g EXCEPT !.cpu.cycles = @ + 2 * n]

\* self.cycles += n.  The counters of cycles are u32; a run of the length
\* explored here keeps them far below 2^32, where += neither wraps nor
\* panics.
AddCycles(g, n) ==
    [g EXCEPT !.cpu.cycles = @ + n]

\* self.cycles += cyc; pc += len; ...; self.pc = pc
Advance(g, len, cyc) ==
    LET p == g.cpu.pc + len
    IN Ovf([AddCycles(g, cyc) EXCEPT !.cpu.pc = W16(p)], p >= U16)

\* A jump that lands one byte past its target.
Jump_past(g, target, len, cyc) ==
    Ovf([AddCycles(g, cyc) EXCEPT !.cpu.pc = W16(target + 1)],
        g.cpu.pc + len - 1 >= U16)

\* self.cycles += cyc; pc = target; ...; self.pc = pc.  The arm read its
\* operands at pc + 1 .. pc + len - 1.
Jump(g, target, len, cyc) ==
    Ovf([AddCycles(g, cyc) EXCEPT !.cpu.pc = target],
        g.cpu.pc + len - 1 >= U16)

\* pc = ((pc as isize) + (val as isize)) as u16; self.cycles += cyc; pc += 2
JumpRel(g, val, cyc) ==
    LET p == W16(g.cpu.pc + AsI8(val) + U16) + 2
    IN Ovf([AddCycles(g, cyc) EXCEPT !.cpu.pc = W16(p)],
           p >= U16 \/ g.cpu.pc + 1 >= U16)

\* The operand of an opcode by its 3-bit field: b c d e h l (hl) a.
GetR(g, i) ==
    CASE i = 0 -> g.cpu.b
      [] i = 1 -> g.cpu.c
      [] i = 2 -> g.cpu.d
      [] i = 3 -> g.cpu.e
      [] i = 4 -> g.cpu.h
      [] i = 5 -> g.cpu.l
      [] i = 6 -> Read(g, hl(g.cpu))
      [] i = 7 -> g.cpu.a

SetR(g, i, v) ==
    CASE i = 0 -> [g EXCEPT !.cpu.b = v]
      [] i = 1 -> [g EXCEPT !.cpu.c = v]
      [] i = 2 -> [g EXCEPT !.cpu.d = v]
      [] i = 3 -> [g EXCEPT !.cpu.e = v]
      [] i = 4 -> [g EXCEPT !.cpu.h = v]
      [] i = 5 -> [g EXCEPT !.cpu.l = v]
      [] i = 6 -> Write(g, hl(g.cpu), v)
      [] i = 7 -> [g EXCEPT !.cpu.a = v]

\* The register pair of an opcode by its 2-bit field: bc de hl sp.
GetRR(c, i) ==
    CASE i = 0 -> bc(c)
      [] i = 1 -> de(c)
      [] i = 2 -> hl(c)
      [] i = 3 -> c.sp

SetRR(c, i, v) ==
    CASE i = 0 -> set_bc(c, v)
      [] i = 1 -> set_de(c, v)
      [] i = 2 -> set_hl(c, v)
      [] i = 3 -> [c EXCEPT !.sp = v]

\* The pair a PUSH or POP names: bc de hl af.
GetQQ(c, i) == IF i = 3 THEN af(c) ELSE GetRR(c, i)

SetQQ(c, i, v) == IF i = 3 THEN set_af(c, v) ELSE SetRR(c, i, v)

\* The condition of a conditional jump, call or return: nz z nc c.
Cond(c, i) ==
    CASE i = 0 -> ~zero(c)
      [] i = 1 -> zero(c)
      [] i = 2 -> ~carry(c)
      [] i = 3 -> carry(c)

\* The ALU operation of 0x80-0xbf and of the immediate forms, by its
\* 3-bit field: add adc sub sbc and xor or cp.
Alu(c, k, val) ==
    CASE k = 0 -> add(c, val)
      [] k = 1 -> adc(c, val)
      [] k = 2 -> sub(c, val)
      [] k = 3 -> sbc(c, val)
      [] k = 4 -> and(c, val)
      [] k = 5 -> xor(c, val)
      [] k = 6 -> or(c, val)
      [] k = 7 -> cp(c, val)

\* Every rotate and shift done as rlc.
Rot_all_rlc(c, k, val) == rlc(c, val)

\* The rotate or shift of CB 0x00-0x3f by its 3-bit field:
\* rlc rrc rl rr sla sra swap srl.
Rot(c, k, val) ==
    CASE k = 0 -> rlc(c, val)
      [] k = 1 -> rrc(c, val)
      [] k = 2 -> rl(c, val)
      [] k = 3 -> rr(c, val)
      [] k = 4 -> sla(c, val)
      [] k = 5 -> sra(c, val)
      [] k = 6 -> swap(c, val)
      [] k = 7 -> srl(c, val)

Panic(g, msg) == [g EXCEPT !.panic = msg]

---------------------------------------------------------------------------
(* cpu.rs: Cpu::handle_cb.  The machine after the CB-prefixed opcode, and  *)
(* the cycles it returns.                                                  *)

handle_cb_cycles(opcode) ==
    IF opcode % 8 = 6 /\ ~(opcode \in \h40 .. \h7f) THEN 16 ELSE 8

handle_cb(g, opcode) ==
    LET r == opcode % 8
        k == (opcode \div 8) % 8
        val == GetR(g, r)
    IN CASE opcode \in \h00 .. \h3f ->
                LET x == Rot(g.cpu, k, val)
                IN SetR([g EXCEPT !.cpu = x.cpu], r, x.val)
         [] opcode \in \h40 .. \h7f -> [g EXCEPT !.cpu = bit(g.cpu, k, val)]
         [] opcode \in \h80 .. \hbf -> SetR(g, r, res(k, val))
         [] opcode \in \hc0 .. \hff -> SetR(g, r, set(k, val))

---------------------------------------------------------------------------
(* cpu.rs: Cpu::service_interrupt and Cpu::service_interrupts.             *)

\* service_interrupt without the line `self.halt = false`.
service_interrupt_keeps_halt(g, addr) ==
    [stack_write_u16(g, g.cpu.pc) EXCEPT !.cpu.pc = addr]

service_interrupt(g, addr) ==
    LET g1 == [g EXCEPT !.cpu.halt = FALSE]
        g2 == stack_write_u16(g1, g1.cpu.pc)
    IN [g2 EXCEPT !.cpu.pc = addr]

ServiceIf(g, interrupt, addr) ==
    IF triggered(g, interrupt)
    THEN service_interrupt(interrupt_triggered(g, interrupt), addr)
    ELSE g

service_interrupts(g) ==
    LET g1 == ServiceIf(g, INTERRUPT_VBLANK, \h40)
        g2 == ServiceIf(g1, INTERRUPT_LCD_STAT, \h48)
        g3 == ServiceIf(g2, INTERRUPT_TIMER, \h50)
        g4 == ServiceIf(g3, INTERRUPT_SERIAL, \h58)
    IN ServiceIf(g4, INTERRUPT_JOYPAD, \h60)

---------------------------------------------------------------------------
(* cpu.rs: Cpu::run, the match on the opcode.  op is the byte at pc, lo    *)
(* and hi the bytes at pc + 1 and pc + 2 (read only by the arms that have  *)
(* an operand).                                                            *)

UndefinedOps ==
    {\hd3, \hdb, \hdd, \he3, \he4, \heb, \hec, \hed, \hf4, \hfc, \hfd}

\* 0x00-0x3f
exec_00_3f(g, op, lo, hi) ==
    LET c == g.cpu
        nn == Mk16(hi, lo)
        rp == op \div 16
        r == op \div 8
    IN CASE op = \h00 -> Advance(g, 1, 4)
         [] op \in {\h01, \h11, \h21, \h31} ->
                Advance([g EXCEPT !.cpu = SetRR(c, rp, nn)], 3, 12)
         [] op = \h02 -> Advance(Write(g, bc(c), c.a), 1, 8)
         [] op = \h12 -> Advance(Write(g, de(c), c.a), 1, 8)
         [] op = \h22 ->
                LET g1 == Write(g, hl(c), c.a)
                IN Advance([g1 EXCEPT !.cpu = set_hl(@, inc16(hl(c)))], 1, 8)
         [] op = \h32 ->
                LET g1 == Write(g, hl(c), c.a)
                IN Advance([g1 EXCEPT !.cpu = set_hl(@, dec16(hl(c)))], 1, 8)
         [] op = \h0a -> Advance([g EXCEPT !.cpu.a = Read(g, bc(c))], 1, 8)
         [] op = \h1a -> Advance([g EXCEPT !.cpu.a = Read(g, de(c))], 1, 8)
         [] op = \h2a ->
                Advance([g EXCEPT !.cpu =
                    set_hl([c EXCEPT !.a = Read(g, hl(c))], inc16(hl(c)))],
                    1, 8)
         [] op = \h3a ->
                Advance([g EXCEPT !.cpu =
                    set_hl([c EXCEPT !.a = Read(g, hl(c))], dec16(hl(c)))],
                    1, 8)
         [] op \in {\h03, \h13, \h23, \h33} ->
                Advance([g EXCEPT !.cpu = SetRR(c, rp, inc16(GetRR(c, rp)))],
                        1, 8)
         [] op \in {\h0b, \h1b, \h2b} ->
                Advance([g EXCEPT !.cpu = SetRR(c, rp, dec16(GetRR(c, rp)))],
                        1, 8)
         \* dec sp ends with pc += 2
         [] op = \h3b -> Advance([g EXCEPT !.cpu.sp = dec16(c.sp)], 2, 8)
         [] op \in {\h09, \h19, \h29} ->
                Advance([g EXCEPT !.cpu = add_hl(c, GetRR(c, rp))], 1, 8)
         \* add hl, sp ends with pc += 2
         [] op = \h39 -> Advance([g EXCEPT !.cpu = add_hl(c, c.sp)], 2, 8)
         [] op \in {\h04, \h0c, \h14, \h1c, \h24, \h2c, \h34, \h3c} ->
                LET x == inc(c, GetR(g, r))
                IN Advance(SetR([g EXCEPT !.cpu = x.cpu], r, x.val), 1,
                           IF r = 6 THEN 12 ELSE 4)
         [] op \in {\h05, \h0d, \h15, \h1d, \h25, \h2d, \h35, \h3d} ->
                LET x == dec(c, GetR(g, r))
                IN Advance(SetR([g EXCEPT !.cpu = x.cpu], r, x.val), 1,
                           IF r = 6 THEN 12 ELSE 4)
         [] op \in {\h06, \h0e, \h16, \h1e, \h26, \h2e, \h36, \h3e} ->
                Advance(SetR(g, r, lo), 2, IF r = 6 THEN 12 ELSE 8)
         [] op = \h07 ->
                LET x == rlc(c, c.a)
                IN Advance([g EXCEPT !.cpu =
                       set_zero([x.cpu EXCEPT !.a = x.val], FALSE)], 1, 4)
         [] op = \h0f ->
                LET x == rrc(c, c.a)
                IN Advance([g EXCEPT !.cpu =
                       set_zero([x.cpu EXCEPT !.a = x.val], FALSE)], 1, 4)
         [] op = \h17 ->
                LET x == rl(c, c.a)
                IN Advance([g EXCEPT !.cpu =
                       set_zero([x.cpu EXCEPT !.a = x.val], FALSE)], 1, 4)
         [] op = \h1f ->
                LET x == rr(c, c.a)
                IN Advance([g EXCEPT !.cpu =
                       set_zero([x.cpu EXCEPT !.a = x.val], FALSE)], 1, 4)
         [] op = \h08 ->
                LET g1 == Write(g, W16(nn + 1), Hi(c.sp))
                    g2 == Write(g1, nn, Lo(c.sp))
                IN Advance(Ovf(g2, nn + 1 >= U16), 3, 20)
         [] op = \h10 -> Panic(g, "stop")
         [] op = \h18 -> JumpRel(g, lo, 12)
         [] op \in {\h20, \h28, \h30, \h38} ->
                IF Cond(c, r - 4) THEN JumpRel(g, lo, 12)
                ELSE Advance(g, 2, 8)
         [] op = \h27 -> Advance([g EXCEPT !.cpu = daa(c)], 1, 4)
         [] op = \h2f ->
                Advance([g EXCEPT !.cpu = set_half_carry(
                    set_subtract([c EXCEPT !.a = Not8(c.a)], TRUE), TRUE)],
                    1, 4)
         [] op = \h37 ->
                Advance([g EXCEPT !.cpu = set_carry(set_half_carry(
                    set_subtract(c, FALSE), FALSE), TRUE)], 1, 4)
         [] op = \h3f ->
                Advance([g EXCEPT !.cpu = set_carry(set_half_carry(
                    set_subtract(c, FALSE), FALSE), ~carry(c))], 1, 4)

\* 0x40-0xbf: ld r, r' (0x76 is halt) and the ALU on a register or (hl).
exec_40_bf(g, op) ==
    LET c == g.cpu
        dst == (op \div 8) % 8
        src == op % 8
    IN CASE op = \h76 ->
                [g EXCEPT !.cpu.halt = TRUE, !.cpu.pc = W16(c.pc + 1),
                          !.ovf = @ \/ c.pc + 1 >= U16]
         [] op \in \h40 .. \h7f /\ op # \h76 ->
                Advance(SetR(g, dst, GetR(g, src)), 1,
                        IF dst = 6 \/ src = 6 THEN 8 ELSE 4)
         [] op \in \h80 .. \hbf ->
                Advance([g EXCEPT !.cpu = Alu(c, dst, GetR(g, src))], 1,
                        IF src = 6 \/ op = \h87 THEN 8 ELSE 4)

\* 0xc0-0xff
exec_c0_ff(g, op, lo, hi, cbop) ==
    LET c == g.cpu
        nn == Mk16(hi, lo)
        cc == (op \div 8) % 4
        qq == (op \div 16) % 4
        ret == stack_read_u16(g)
        ext == SignExt(lo)
        spflags(c1) ==
            set_znhc(c1, FALSE, FALSE,
                     And16(c.sp, \h0f) + And16(ext, \h0f) > \h0f,
                     And16(c.sp, \hff) + And16(ext, \hff) > \hff)
    IN CASE op \in {\hc0, \hc8, \hd0, \hd8} ->
                IF Cond(c, cc) THEN Jump(ret.g, ret.val, 1, 20)
                ELSE Advance(g, 1, 8)
         [] op \in {\hc1, \hd1, \he1, \hf1} ->
                Advance([ret.g EXCEPT !.cpu = SetQQ(@, qq, ret.val)], 1, 12)
         [] op \in {\hc2, \hca, \hd2, \hda} ->
                IF Cond(c, cc) THEN Jump(g, nn, 3, 16)
                ELSE Advance(g, 3, 12)
         [] op = \hc3 -> Jump(g, nn, 3, 16)
         [] op \in {\hc4, \hcc, \hd4, \hdc} ->
                IF Cond(c, cc)
                THEN Jump(Ovf(stack_write_u16(g, W16(c.pc + 3)),
                              c.pc + 3 >= U16), nn, 3, 24)
                ELSE Advance(g, 3, 12)
         [] op = \hcd ->
                Jump(Ovf(stack_write_u16(g, W16(c.pc + 3)), c.pc + 3 >= U16),
                     nn, 3, 24)
         [] op \in {\hc5, \hd5, \he5, \hf5} ->
                Advance(stack_write_u16(g, GetQQ(c, qq)), 1, 16)
         [] op \in {\hc6, \hce, \hd6, \hde, \he6, \hee, \hf6, \hfe} ->
                Advance([g EXCEPT !.cpu = Alu(c, (op \div 8) % 8, lo)], 2, 8)
         [] op \in {\hc7, \hcf, \hd7, \hdf, \he7, \hef, \hf7, \hff} ->
                Jump(Ovf(stack_write_u16(g, W16(c.pc + 1)), c.pc + 1 >= U16),
                     op - \hc7, 1, 16)
         [] op = \hc9 -> Jump(ret.g, ret.val, 1, 16)
         [] op = \hd9 ->
                LET r1 == stack_read_u16(
                              [g EXCEPT !.mm.interrupt_master_enable = TRUE])
                IN Jump(r1.g, r1.val, 1, 16)
         [] op = \hcb ->
                Advance(handle_cb(g, cbop), 2, handle_cb_cycles(cbop))
         [] op = \he0 -> Advance(Write(g, \hff00 + lo, c.a), 2, 12)
         [] op = \hf0 ->
                Advance([g EXCEPT !.cpu.a = Read(g, \hff00 + lo)], 2, 12)
         [] op = \he2 -> Advance(Write(g, \hff00 + c.c, c.a), 1, 8)
         [] op = \hf2 ->
                Advance([g EXCEPT !.cpu.a = Read(g, \hff00 + c.c)], 1, 8)
         [] op = \he8 ->
                Advance([g EXCEPT !.cpu =
                    spflags([c EXCEPT !.sp = W16(c.sp + ext)])], 2, 16)
         [] op = \hf8 ->
                Advance([g EXCEPT !.cpu =
                    spflags(set_hl(c, W16(c.sp + ext)))], 2, 12)
         [] op = \he9 -> Jump(g, hl(c), 1, 4)
         [] op = \hf9 -> Advance([g EXCEPT !.cpu.sp = hl(c)], 1, 8)
         [] op = \hea -> Advance(Write(g, nn, c.a), 3, 16)
         [] op = \hfa -> Advance([g EXCEPT !.cpu.a = Read(g, nn)], 3, 16)
         [] op = \hf3 -> Advance(di(g), 1, 4)
         [] op = \hfb -> Advance(ei(g), 1, 4)
         [] op \in UndefinedOps -> Panic(g, "unknown instruction")

\* The match of Cpu::run.
exec(g, op, lo, hi) ==
    CASE op \in \h00 .. \h3f -> exec_00_3f(g, op, lo, hi)
      [] op \in \h40 .. \hbf -> exec_40_bf(g, op)
      [] op \in \hc0 .. \hff -> exec_c0_ff(g, op, lo, hi, lo)

\* A cpu that runs opcodes while halted.
cpu_mid_halt_runs(g, op, lo, hi) == exec(g, op, lo, hi)

\* Cpu::run.  A halted cpu charges 16 cycles and looks at the interrupts;
\* otherwise the opcode runs, pc is stored and the interrupts are looked
\* at.  A panic leaves the machine where the step found it.  cpu_mid is
\* the machine as the call to service_interrupts finds it.
cpu_mid(g, op, lo, hi) ==
    IF g.cpu.halt THEN AddCycles(g, 16) ELSE exec(g, op, lo, hi)

\* The end of cpu.run: the instruction left g1; a panic leaves the machine
\* as it was before the call, otherwise the interrupt check follows.
run_end(g, g1) ==
    IF g1.panic # "" THEN Panic(g, g1.panic) ELSE service_interrupts(g1)

cpu_run(g, op, lo, hi) == run_end(g, cpu_mid(g, op, lo, hi))

---------------------------------------------------------------------------
(* lcd.rs: Lcd::run.  The machine after the call and the vblank it         *)
(* returns.  Drawing the scanline changes only the pixel buffer.           *)

\* A PPU whose interrupts are never enabled.
interrupt_enabled_never(lcd, int) == FALSE

interrupt_enabled(lcd, int) == And8(lcd.stat, int) > 0

RaiseIf(g, cond, interrupt) ==
    IF cond THEN [g EXCEPT !.mm.interrupt_flag = Or8(@, interrupt)] ELSE g

SetMode(stat, m) == Or8(And8(stat, Not8(3)), m)

lcd_run(g, cycles) ==
    LET cy == g.lcd.cycles + cycles
        g0 == [g EXCEPT !.lcd.cycles = cy]
        mode == And8(g.lcd.stat, LCD_STATUS_MODE)
        ly1 == W8(g.lcd.ly + 1)
    IN CASE mode = 0 ->
              IF cy > 201
              THEN LET g1 == [g0 EXCEPT !.lcd.cycles = cy - 201,
                                        !.lcd.stat = SetMode(@, 2)]
                   IN [g |-> RaiseIf(g1, interrupt_enabled(g1.lcd,
                                 LCD_STATUS_MODE_2_OAM_INTERRUPT),
                                 INTERRUPT_LCD_STAT),
                       vblank |-> FALSE]
              ELSE [g |-> g0, vblank |-> FALSE]
         [] mode = 2 ->
              IF cy > 77
              THEN [g |-> [g0 EXCEPT !.lcd.cycles = cy - 77,
                                     !.lcd.stat = SetMode(@, 3)],
                    vblank |-> FALSE]
              ELSE [g |-> g0, vblank |-> FALSE]
         [] mode = 3 ->
              IF cy > 169
              THEN LET g1 == [g0 EXCEPT !.lcd.cycles = cy - 169,
                                        !.lcd.stat = SetMode(@, 0),
                                        !.lcd.ly = ly1]
                       g2 == RaiseIf(g1,
                                 interrupt_enabled(g1.lcd,
                                     LCD_STATUS_LY_COINCIDENCE_INTERRUPT)
                                 /\ ly1 = g1.lcd.lyc,
                                 INTERRUPT_LCD_STAT)
                   IN IF ly1 >= 144
                      THEN LET g3 == RaiseIf(g2, interrupt_enabled(g2.lcd,
                                         LCD_STATUS_MODE_1_VBLANK_INTERRUPT),
                                         INTERRUPT_LCD_STAT)
                               g4 == RaiseIf(g3,
                                         g3.mm.interrupt_master_enable,
                                         INTERRUPT_VBLANK)
                           IN [g |-> [g4 EXCEPT !.lcd.stat = Or8(@, 1)],
                               vblank |-> TRUE]
                      ELSE [g |-> RaiseIf(g2, interrupt_enabled(g2.lcd,
                                      LCD_STATUS_MODE_0_HBLANK_INTERRUPT),
                                      INTERRUPT_LCD_STAT),
                            vblank |-> FALSE]
              ELSE [g |-> g0, vblank |-> FALSE]
         [] mode = 1 ->
              IF cy > 456
              THEN LET g1 == [g0 EXCEPT !.lcd.cycles = cy - 456,
                                        !.lcd.ly = ly1]
                       g2 == RaiseIf(g1,
                                 interrupt_enabled(g1.lcd,
                                     LCD_STATUS_LY_COINCIDENCE_INTERRUPT)
                                 /\ ly1 = g1.lcd.lyc,
                                 INTERRUPT_LCD_STAT)
                   IN IF ly1 = 0
                      THEN LET g3 == [g2 EXCEPT !.lcd.stat = SetMode(@, 0)]
                           IN [g |-> RaiseIf(g3, interrupt_enabled(g3.lcd,
                                      LCD_STATUS_MODE_0_HBLANK_INTERRUPT),
                                      INTERRUPT_LCD_STAT),
                               vblank |-> FALSE]
                      ELSE [g |-> g2, vblank |-> FALSE]
              ELSE [g |-> g0, vblank |-> FALSE]

---------------------------------------------------------------------------
(* timer.rs: Timer::run.                                                   *)

cycles_per_tick(tac) ==
    CASE And8(tac, TIMER_TAC_INPUT_CLOCK_SELECT) = 0 -> 1024
      [] And8(tac, TIMER_TAC_INPUT_CLOCK_SELECT) = 1 -> 16
      [] And8(tac, TIMER_TAC_INPUT_CLOCK_SELECT) = 2 -> 64
      [] And8(tac, TIMER_TAC_INPUT_CLOCK_SELECT) = 3 -> 25

\* A timer that leaves TIMA at the wrapped value.
timer_run_no_reload(g, cycles) ==
    IF And8(g.timer.tac, TIMER_TAC_TIMER_STOP) = 0 THEN g
    ELSE LET per == cycles_per_tick(g.timer.tac)
             lt == g.timer.last_tick + cycles
             tick == lt >= per
             tima1 == W8(g.timer.tima + 1)
             overflow == tick /\ tima1 = 0
             g1 == [g EXCEPT
                      !.timer.last_tick = IF tick THEN lt - per ELSE lt,
                      !.timer.tima = IF ~tick THEN @ ELSE tima1]
             g2 == RaiseIf(g1, overflow /\ g1.mm.interrupt_master_enable,
                           INTERRUPT_TIMER)
             ld == g.timer.last_div_tick + cycles
         IN [g2 EXCEPT
               !.timer.last_div_tick = IF ld >= 256 THEN ld - 256 ELSE ld,
               !.timer.div = IF ld >= 256 THEN W8(@ + 1) ELSE @]

timer_run(g, cycles) ==
    IF And8(g.timer.tac, TIMER_TAC_TIMER_STOP) = 0 THEN g
    ELSE LET per == cycles_per_tick(g.timer.tac)
             lt == g.timer.last_tick + cycles
             tick == lt >= per
             tima1 == W8(g.timer.tima + 1)
             overflow == tick /\ tima1 = 0
             g1 == [g EXCEPT
                      !.timer.last_tick = IF tick THEN lt - per ELSE lt,
                      !.timer.tima = IF ~tick THEN @
                                     ELSE IF overflow THEN g.timer.tma
                                     ELSE tima1]
             g2 == RaiseIf(g1, overflow /\ g1.mm.interrupt_master_enable,
                           INTERRUPT_TIMER)
             ld == g.timer.last_div_tick + cycles
         IN [g2 EXCEPT
               !.timer.last_div_tick = IF ld >= 256 THEN ld - 256 ELSE ld,
               !.timer.div = IF ld >= 256 THEN W8(@ + 1) ELSE @]

---------------------------------------------------------------------------
(* joypad.rs: Joypad::handle_input for a key of the pad.                   *)

PadKeys == {"up", "down", "left", "right", "b", "a", "select", "start"}

handle_input(g, key, pressed) ==
    LET j1 == [g.joypad EXCEPT !.pressed =
                   IF pressed THEN @ \cup {key} ELSE @ \ {key}]
        g1 == [g EXCEPT !.joypad = set_flags(j1)]
    IN RaiseIf(g1, g1.mm.interrupt_master_enable, INTERRUPT_JOYPAD)

---------------------------------------------------------------------------
(* main.rs: one turn of the 'running loop: cpu.run, lcd.run and timer.run  *)
(* on the cycles the cpu took, the key events on a vblank, prevcycles.     *)

\* The opcodes whose arm reads the byte at pc + 1.
NeedsLo(op) ==
    op \in {\h06, \h0e, \h16, \h1e, \h26, \h2e, \h36, \h3e,
            \h18, \h20, \h28, \h30, \h38,
            \hc6, \hce, \hd6, \hde, \he6, \hee, \hf6, \hfe,
            \he0, \hf0, \he8, \hf8, \hcb,
            \h01, \h11, \h21, \h31, \h08, \hc2, \hca, \hd2, \hda, \hc3,
            \hc4, \hcc, \hd4, \hdc, \hcd, \hea, \hfa}

\* The opcodes whose arm calls read_u16(pc + 1), reading pc + 2 as well.
NeedsHi(op) ==
    op \in {\h01, \h11, \h21, \h31, \h08, \hc2, \hca, \hd2, \hda, \hc3,
            \hc4, \hcc, \hd4, \hdc, \hcd, \hea, \hfa}

\* The values mm.read(addr) of an instruction byte can return: what the
\* machine holds there, or, where the image is not yet known, any of S.
FetchSet(g, addr, S) ==
    IF addr < \h8000 /\ addr \notin DOMAIN g.mm.rom THEN S
    ELSE {Read(g, addr)}

Reveal(g, addr, b) ==
    IF addr < \h8000 /\ addr \notin DOMAIN g.mm.rom
    THEN [g EXCEPT !.mm.rom =
             [x \in DOMAIN @ \cup {addr} |-> IF x = addr THEN b ELSE @[x]]]
    ELSE g

\* The machine with the instruction bytes the cpu is about to read.
Fetch(g, op, lo, hi) ==
    LET pc == g.cpu.pc
        g1 == Reveal(g, pc, op)
        g2 == IF NeedsLo(op) THEN Reveal(g1, W16(pc + 1), lo) ELSE g1
    IN IF g.cpu.halt THEN g
       ELSE IF NeedsHi(op) THEN Reveal(g2, W16(pc + 2), hi) ELSE g2

\* cpu.run on the machine g.  An unchecked addition or subtraction that
\* overflows wraps in a release build and panics in a debug build.
Builds(g, post) ==
    IF post.panic = "" /\ post.ovf
    THEN {post, Panic(g, "arithmetic overflow")}
    ELSE {post}

Outcomes(g, op, lo, hi) ==
    Builds(g, cpu_run(Fetch(g, op, lo, hi), op, lo, hi))

NoEvent == <<"none", FALSE>>

\* The key events event_pump.poll_iter() hands over on a vblank.
Events(vblank, keys) ==
    IF vblank THEN {NoEvent} \cup (keys \X BOOLEAN) ELSE {NoEvent}

Delta(g, h) == g.cpu.cycles - h.prevcycles

\* The rest of the turn after cpu.run left the machine o.  sound.run
\* changes the state of the audio channels only, which no read returns.
AfterCpu(o, h, ev) ==
    LET l == lcd_run(o, Delta(o, h))
        t == timer_run(l.g, Delta(o, h))
    IN IF l.vblank /\ ev # NoEvent THEN handle_input(t, ev[1], ev[2])
       ELSE t

HostAfter(o, h) ==
    [prevcycles |-> o.cpu.cycles,
     steps |-> h.steps + 1,
     total |-> h.total + Delta(o, h),
     vblanks |-> h.vblanks + IF lcd_run(o, Delta(o, h)).vblank THEN 1 ELSE 0]

\* The record of a call of cpu.run: the bytes fetched, the machine before
\* the call, at the interrupt check and after the call.
Call(op, lo, hi, pre, post) ==
    [valid |-> TRUE, op |-> op, lo |-> lo, hi |-> hi, pre |-> pre,
     mid |-> cpu_mid(Fetch(pre, op, lo, hi), op, lo, hi), post |-> post]

NoCall ==
    [valid |-> FALSE, op |-> 0, lo |-> 0, hi |-> 0,
     pre |-> GameboyNew, mid |-> GameboyNew, post |-> GameboyNew]

HostNew == [prevcycles |-> 0, steps |-> 0, total |-> 0, vblanks |-> 0]

\* One turn of the loop, the instruction bytes not yet known drawn from
\* ops, cbs (after 0xcb) and bytes, the key events from keys.
Step(ops, cbs, bytes, keys) ==
    LET pre == [gb EXCEPT !.ovf = FALSE]
        pc == pre.cpu.pc
    IN /\ gb.panic = ""
       /\ \E op \in IF pre.cpu.halt THEN {0} ELSE FetchSet(pre, pc, ops) :
          \E lo \in IF pre.cpu.halt \/ ~NeedsLo(op) THEN {0}
                    ELSE FetchSet(pre, W16(pc + 1),
                                  IF op = \hcb THEN cbs ELSE bytes) :
          \E hi \in IF pre.cpu.halt \/ ~NeedsHi(op) THEN {0}
                    ELSE FetchSet(pre, W16(pc + 2), bytes) :
          \E o \in Outcomes(pre, op, lo, hi) :
             /\ last' = Call(op, lo, hi, pre, o)
             /\ last2' = last
             /\ IF o.panic # ""
                THEN /\ gb' = o
                     /\ host' = [host EXCEPT !.steps = @ + 1]
                ELSE /\ \E ev \in Events(lcd_run(o, Delta(o, host)).vblank,
                                         keys) :
                            gb' = AfterCpu(o, host, ev)
                     /\ host' = HostAfter(o, host)

---------------------------------------------------------------------------
(* The emulator from construction, every opcode in the image.              *)

MaxSteps == 2

AllOps == 0 .. 255

Bytes == {\h00, \h34}

Keys == {"a", "up"}

Init ==
    /\ gb = GameboyNew
    /\ last = NoCall
    /\ last2 = NoCall
    /\ host = HostNew

Run == host.steps < MaxSteps /\ Step(AllOps, AllOps, Bytes, Keys)

Next == Run

Spec == Init /\ [][Next]_vars

---------------------------------------------------------------------------
(* Programs run from construction.  A program is a sequence of             *)
(* instructions <<op, lo, hi>>; each takes one turn of the loop (release   *)
(* build, no key event).                                                   *)

\* The turn on the machine pre, cpu.run having left o.
TurnFrom(s, ins, pre, o) ==
    [gb |-> AfterCpu(o, s.host, NoEvent), host |-> HostAfter(o, s.host),
     last |-> Call(ins[1], ins[2], ins[3], pre, o), last2 |-> s.last]

TurnOf(s, ins, pre) ==
    TurnFrom(s, ins, pre, cpu_run(Fetch(pre, ins[1], ins[2], ins[3]),
                                  ins[1], ins[2], ins[3]))

Turn(s, ins) == TurnOf(s, ins, [s.gb EXCEPT !.ovf = FALSE])

\* The value of a singleton set (the turn is computed once).
The(S) == CHOOSE x \in S : TRUE

RECURSIVE RunProgram(_, _)
RunProgram(s, prog) ==
    IF prog = << >> THEN s
    ELSE The({RunProgram(t, Tail(prog)) : t \in {Turn(s, Head(prog))}})

Constructed ==
    [gb |-> GameboyNew, host |-> HostNew, last |-> NoCall, last2 |-> NoCall]

\* The state of the model after the program, the count of turns restarted.
StateIs(s) ==
    /\ gb = s.gb
    /\ host = s.host
    /\ last = s.last
    /\ last2 = s.last2

Restarted(s) == [s EXCEPT !.host.steps = 0]

InitAfter(prog) == StateIs(Restarted(RunProgram(Constructed, prog)))

LD_SP(nn) == <<\h31, Lo(nn), Hi(nn)>>

LD_A(n) == <<\h3e, n, 0>>

LDH_A(n) == <<\he0, n, 0>>

Times(ins, n) == [i \in 1 .. n |-> ins]

---------------------------------------------------------------------------
(* Interrupts.  A program sets SP, IF and IE; or it sets SP, the OAM       *)
(* interrupt of STAT and IE, enables the interrupts, halts and waits; the  *)
(* cpu then runs instructions that touch IME, IF and the halt.             *)

MaxIntSteps == 2

IntSPs == {\hfffe, \hd000, \hff11, \hff10, \h0001}

IntFlags == 0 .. 31

IntEnables == IntFlags \cup {\hff}

IntOps == {\h00, \hfb, \hf3, \h76, \hd9, \he0}

IntBytes == {\h0f}

HaltWaits == {9, 10}

SetupInt(sp, if, ie) ==
    <<LD_SP(sp), LD_A(if), LDH_A(\h0f), LD_A(ie), LDH_A(\hff)>>

SetupHalt(sp, n) ==
    <<LD_SP(sp), LD_A(LCD_STATUS_MODE_2_OAM_INTERRUPT), LDH_A(\h41),
      LD_A(\hff), LDH_A(\hff), <<\hfb, 0, 0>>, <<\h76, 0, 0>>>>
    \o Times(<<0, 0, 0>>, n)

InitInt ==
    \/ \E sp \in IntSPs, if \in IntFlags, ie \in IntEnables :
          InitAfter(SetupInt(sp, if, ie))
    \/ \E sp \in IntSPs, n \in HaltWaits : InitAfter(SetupHalt(sp, n))

RunInt == host.steps < MaxIntSteps /\ Step(IntOps, {}, IntBytes, {})

NextInt == RunInt

SpecInt == InitInt /\ [][NextInt]_vars

---------------------------------------------------------------------------
(* The stack.  A program sets SP and the pairs BC, DE and HL; the cpu      *)
(* then runs PUSH and POP instructions.                                    *)

MaxStackSteps == 2

StackSPs ==
    {\hfffe, \hd000, \hc000, \hc001, \hc002, \h8000, \h8001, \he000,
     \hfe00, \hff80, \hff81, \hffff, \h4000, \h0001}

StackVals == {\h1234, \h0000, \hffff, \h00ff, \habcd, \h8001}

PushOps == {\hc5, \hd5, \he5, \hf5}

PopOps == {\hc1, \hd1, \he1, \hf1}

LD_BC(nn) == <<\h01, Lo(nn), Hi(nn)>>

LD_DE(nn) == <<\h11, Lo(nn), Hi(nn)>>

LD_HL(nn) == <<\h21, Lo(nn), Hi(nn)>>

SetupStack(sp, v) ==
    <<LD_SP(sp), LD_BC(v), LD_DE(W16(v + \h0101)), LD_HL(W16(v + \h0202))>>

InitStack ==
    \E sp \in StackSPs, v \in StackVals : InitAfter(SetupStack(sp, v))

RunStack ==
    host.steps < MaxStackSteps /\ Step(PushOps \cup PopOps, {}, {}, {})

NextStack == RunStack

SpecStack == InitStack /\ [][NextStack]_vars

---------------------------------------------------------------------------
(* 16-bit INC and DEC.  A program sets A and F (through the stack), the    *)
(* pairs and SP; the cpu then runs the eight instructions.                 *)

MaxIncDecSteps == 2

IncDecFlags == {16 * k : k \in 0 .. 15}

IncDecVals ==
    {\h0000, \h00ff, \hffff, \h0100, \h0fff, \h1000, \h7fff, \h8000}

Inc16Ops == {\h03, \h13, \h23, \h33}

Dec16Ops == {\h0b, \h1b, \h2b, \h3b}

PUSH_BC == <<\hc5, 0, 0>>

POP_AF == <<\hf1, 0, 0>>

\* AF = af, by way of BC and the stack.
SetAF(af0) == <<LD_BC(af0), PUSH_BC, POP_AF>>

SetupIncDec(f, v) ==
    SetAF(Mk16(\h01, f)) \o <<LD_BC(v), LD_DE(v), LD_HL(v), LD_SP(v)>>

InitIncDec ==
    \E f \in IncDecFlags, v \in IncDecVals : InitAfter(SetupIncDec(f, v))

RunIncDec ==
    host.steps < MaxIncDecSteps /\ Step(Inc16Ops \cup Dec16Ops, {}, {}, {})

NextIncDec == RunIncDec

SpecIncDec == InitIncDec /\ [][NextIncDec]_vars

---------------------------------------------------------------------------
(* ADD and ADC.  A program sets A and F; the cpu then runs ADD A,n or      *)
(* ADC A,n with any operand.                                               *)

MaxAluSteps == 1

AluFlags == {\he0, \h10}

AddOps == {\hc6, \hce}

InitAlu ==
    \E a \in 0 .. 255, f \in AluFlags : InitAfter(SetAF(Mk16(a, f)))

RunAlu == host.steps < MaxAluSteps /\ Step(AddOps, {}, 0 .. 255, {})

NextAlu == RunAlu

SpecAlu == InitAlu /\ [][NextAlu]_vars

---------------------------------------------------------------------------
(* DAA after SUB.  A program sets A to a packed-BCD value and subtracts a  *)
(* packed-BCD operand; the cpu then runs DAA.                              *)

MaxBcdSteps == 1

IsBcd(x) == x % 16 <= 9 /\ x \div 16 <= 9

BcdBytes == {x \in 0 .. 255 : IsBcd(x)}

SUB_N(n) == <<\hd6, n, 0>>

InitBcd ==
    \E a \in BcdBytes, b \in BcdBytes : InitAfter(<<LD_A(a), SUB_N(b)>>)

RunBcd == host.steps < MaxBcdSteps /\ Step({\h27}, {}, {}, {})

NextBcd == RunBcd

SpecBcd == InitBcd /\ [][NextBcd]_vars

---------------------------------------------------------------------------
(* The PPU over a frame.  The image holds a loop of 4, 12 or 16 cycles a   *)
(* turn, or a HALT with the interrupts disabled (16 cycles a turn); none   *)
(* writes to a register of the PPU.                                        *)

MaxLcdCycles == 70224

LcdKeys == {"a"}

LcdPrograms ==
    {<<LD_HL(\h0103), <<\he9, 0, 0>>>>,
     <<<<\h18, \hfe, 0>>>>,
     <<<<\hc3, \h00, \h01>>>>,
     <<<<\h76, 0, 0>>>>}

InitLcd ==
    \E prog \in LcdPrograms : StateIs(RunProgram(Constructed, prog))

RunLcd == host.total < MaxLcdCycles /\ Step({}, {}, {}, LcdKeys)

NextLcd == RunLcd

SpecLcd == InitLcd /\ [][NextLcd]_vars

---------------------------------------------------------------------------
(* Properties.                                                             *)

---------------------------------------------------------------------------
(* The interrupt check of a call of cpu.run, as the claims speak of it.    *)

\* The sources in the order of their priority, and their vectors.
Sources ==
    <<INTERRUPT_VBLANK, INTERRUPT_LCD_STAT, INTERRUPT_TIMER,
      INTERRUPT_SERIAL, INTERRUPT_JOYPAD>>

Vectors == <<\h40, \h48, \h50, \h58, \h60>>

\* The sources whose bit is set in both IE and IF.
PendingSources(m) ==
    {i \in 1 .. 5 : /\ And8(m.mm.interrupt_enable, Sources[i]) > 0
                    /\ And8(m.mm.interrupt_flag, Sources[i]) > 0}

TopSource(m) ==
    CHOOSE i \in PendingSources(m) : \A j \in PendingSources(m) : i <= j

\* The last call of cpu.run came to its interrupt check with IME set and
\* a source pending, and returned.
Serviced ==
    /\ last.valid
    /\ last.post.panic = ""
    /\ last.mid.mm.interrupt_master_enable
    /\ PendingSources(last.mid) # {}

\* The push of the service wrote to the IF register.
PushHitsIF(m) ==
    \hff0f \in {W16(m.cpu.sp + U16 - 1), W16(m.cpu.sp + U16 - 2)}

\* C2 (as stated): with IME set, the check services exactly one source,
\* the one of highest priority pending in IE and IF, and clears only the
\* IF bit of that source.
C2_Claim ==
    Serviced =>
        /\ last.post.cpu.pc = Vectors[TopSource(last.mid)]
        /\ last.post.cpu.sp = W16(last.mid.cpu.sp + U16 - 2)
        /\ last.post.mm.interrupt_flag =
               last.mid.mm.interrupt_flag - Sources[TopSource(last.mid)]

\* C2 (amended): with IME set, the check services exactly one source, the
\* one of highest priority pending in IE and IF; unless the push of PC
\* lands on the IF register, only the IF bit of that source is cleared.
C2_OneSourceByPriority ==
    Serviced =>
        /\ last.post.cpu.pc = Vectors[TopSource(last.mid)]
        /\ last.post.cpu.sp = W16(last.mid.cpu.sp + U16 - 2)
        /\ ~PushHitsIF(last.mid) =>
               last.post.mm.interrupt_flag =
                   last.mid.mm.interrupt_flag - Sources[TopSource(last.mid)]

\* IE = 0xFF, IF = VBlank | Timer: VBlank is serviced, Timer stays set.
C2_Witness ==
    /\ Serviced
    /\ last.mid.mm.interrupt_enable = \hff
    /\ last.mid.mm.interrupt_flag = Or8(INTERRUPT_VBLANK, INTERRUPT_TIMER)
    /\ last.post.mm.interrupt_flag = INTERRUPT_TIMER
    /\ last.post.cpu.pc = \h40

\* C3: when the check services a source IME is cleared, the PC of the
\* next instruction is pushed (SP decreases by 2, the two bytes hold that
\* PC where the stack is RAM), PC becomes the vector of the source and
\* halted is cleared.
C3_ServiceEffects ==
    Serviced =>
        LET sp == last.post.cpu.sp
        IN /\ ~last.post.mm.interrupt_master_enable
           /\ sp = W16(last.mid.cpu.sp + U16 - 2)
           /\ InRam(sp) /\ InRam(W16(sp + 1)) =>
                  Mk16(Read(last.post, W16(sp + 1)), Read(last.post, sp))
                      = last.mid.cpu.pc
           /\ last.post.cpu.pc = Vectors[TopSource(last.mid)]
           /\ ~last.post.cpu.halt

\* A halted cpu is woken by the LCDSTAT interrupt and its PC is on the
\* stack.
C3_Witness ==
    /\ Serviced
    /\ last.pre.cpu.halt
    /\ ~last.post.cpu.halt
    /\ last.post.cpu.pc = \h48
    /\ InRam(last.post.cpu.sp)
    /\ Read(last.post, last.post.cpu.sp) = Lo(last.pre.cpu.pc)

\* C4 (as stated): a step in which an interrupt is serviced adds 20 cycles
\* to the cycle counter on top of the cost of the instruction or halted
\* tick of that step.
C4_Claim ==
    Serviced => last.post.cpu.cycles = last.mid.cpu.cycles + 20

---------------------------------------------------------------------------
(* The stack, as the claims speak of it.                                   *)

\* The last two calls of cpu.run were a PUSH and the POP that follows it
\* in the program, and both returned.
PushThenPop ==
    /\ last2.valid /\ last.valid
    /\ last2.op \in PushOps /\ last.op \in PopOps
    /\ last.post.panic = ""
    /\ last.pre.cpu.pc = W16(last2.pre.cpu.pc + 1)

Pushed == GetQQ(last2.pre.cpu, (last2.op \div 16) % 4)

Popped == GetQQ(last.post.cpu, (last.op \div 16) % 4)

PushDone == last.valid /\ last.op \in PushOps /\ last.post.panic = ""

PushedLast == GetQQ(last.pre.cpu, (last.op \div 16) % 4)

\* C6 (as stated): a push of v decrements SP by exactly 2 and stores v
\* little-endian: memory[SP] is the low byte of v, memory[SP+1] the high.
C6_Claim ==
    PushDone =>
        /\ last.post.cpu.sp = W16(last.pre.cpu.sp + U16 - 2)
        /\ Read(last.post, last.post.cpu.sp) = Lo(PushedLast)
        /\ Read(last.post, W16(last.post.cpu.sp + 1)) = Hi(PushedLast)

\* C6 (amended): a push of v decrements SP by exactly 2; where the two
\* bytes below the old SP are writable RAM, memory[SP] is then the low
\* byte of v and memory[SP+1] the high byte.
C6_PushLittleEndian ==
    PushDone =>
        LET sp == last.post.cpu.sp
        IN /\ sp = W16(last.pre.cpu.sp + U16 - 2)
           /\ InRam(sp) /\ InRam(W16(sp + 1)) =>
                  /\ Read(last.post, sp) = Lo(PushedLast)
                  /\ Read(last.post, W16(sp + 1)) = Hi(PushedLast)

\* From SP = 0xFFFE, pushing 0x1234: SP = 0xFFFC, [SP] = 0x34, [SP+1] = 0x12.
C6_Witness ==
    /\ PushDone
    /\ last.pre.cpu.sp = \hfffe
    /\ PushedLast = \h1234
    /\ gb.cpu.sp = \hfffc
    /\ Read(gb, \hfffc) = \h34
    /\ Read(gb, \hfffd) = \h12

---------------------------------------------------------------------------
(* Arithmetic, as the claims speak of it.                                  *)

\* C7: INC and DEC of BC, DE, HL and SP leave F as it was, whatever the
\* operand and F, and the result wraps modulo 65536.
C7_IncDec16 ==
    /\ last.valid
    /\ last.op \in Inc16Ops \cup Dec16Ops
    /\ last.post.panic = ""
    => LET rp == last.op \div 16
           old == GetRR(last.pre.cpu, rp)
       IN /\ last.post.cpu.f = last.pre.cpu.f
          /\ GetRR(last.post.cpu, rp) =
                 IF last.op \in Inc16Ops THEN (old + 1) % 65536
                 ELSE (old + 65535) % 65536

\* F = 0xF0, BC = 0x00FF; INC BC gives BC = 0x0100 and F = 0xF0.
C7_Witness ==
    /\ last.valid
    /\ last.op = \h03
    /\ last.pre.cpu.f = \hf0
    /\ bc(last.pre.cpu) = \h00ff
    /\ bc(gb.cpu) = \h0100
    /\ gb.cpu.f = \hf0

\* C8: for all A, v and carry c (ADD ignores c), ADD and ADC set A to
\* (A+v+c) mod 256, Zero iff the result is 0, Subtract cleared, HalfCarry
\* iff (A&0xF)+(v&0xF)+c > 0xF and Carry iff A+v+c > 0xFF.
C8_AddAdc ==
    /\ last.valid
    /\ last.op \in AddOps
    /\ last.post.panic = ""
    => LET a == last.pre.cpu.a
           v == last.lo
           cy == IF last.op = \hce THEN Bit(last.pre.cpu.f, 4) ELSE 0
           f == last.post.cpu.f
       IN /\ last.post.cpu.a = (a + v + cy) % 256
          /\ (Bit(f, 7) = 1) <=> ((a + v + cy) % 256 = 0)
          /\ Bit(f, 6) = 0
          /\ (Bit(f, 5) = 1) <=> ((a % 16) + (v % 16) + cy > 15)
          /\ (Bit(f, 4) = 1) <=> (a + v + cy > 255)

\* A = 0x3A, v = 0xC6, ADD: A = 0x00 with Zero, HalfCarry and Carry set.
C8_Witness ==
    /\ last.valid
    /\ last.op = \hc6
    /\ last.pre.cpu.a = \h3a
    /\ last.lo = \hc6
    /\ gb.cpu.a = \h00
    /\ gb.cpu.f = \hb0

BcdValue(x) == 10 * (x \div 16) + (x % 16)

\* C9: for packed-BCD a and b, SUB b on A = a followed by DAA leaves A a
\* packed-BCD value encoding (a - b) mod 100, HalfCarry cleared and Zero
\* set iff A is 0.
C9_SubDaa ==
    /\ last2.valid /\ last.valid
    /\ last2.op = \hd6 /\ last.op = \h27
    /\ IsBcd(last2.pre.cpu.a) /\ IsBcd(last2.lo)
    /\ last.post.panic = ""
    => LET a == BcdValue(last2.pre.cpu.a)
           b == BcdValue(last2.lo)
           f == last.post.cpu.f
       IN /\ IsBcd(last.post.cpu.a)
          /\ BcdValue(last.post.cpu.a) = (a + 100 - b) % 100
          /\ Bit(f, 5) = 0
          /\ (Bit(f, 7) = 1) <=> (last.post.cpu.a = 0)

\* 0x00 - 0x01, corrected by DAA to 0x99.
C9_Witness ==
    /\ last2.valid /\ last.valid
    /\ last2.op = \hd6 /\ last.op = \h27
    /\ last2.pre.cpu.a = \h00 /\ last2.lo = \h01
    /\ last.pre.cpu.a = \hff
    /\ gb.cpu.a = \h99

---------------------------------------------------------------------------
(* The PPU, as the claims speak of it.                                     *)

\* C10 (as stated): from its initial state, with no write to its
\* registers, the PPU advanced by a total of exactly 70224 cycles has made
\* exactly one transition into VBlank and LY is 0.
C10_Claim ==
    host.total = 70224 => host.vblanks = 1 /\ gb.lcd.ly = 0

\* C11 (as stated): in every state reached by advancing the PPU with no
\* write to LY, LY is in 0..153.
C11_Claim == gb.lcd.ly \in 0 .. 153

---------------------------------------------------------------------------
(* Memory.  A program sets A; the cpu then runs LD (nn),A and LD A,n with  *)
(* the bytes of nn and n drawn from MemBytes, which reaches the ROM, the   *)
(* external RAM, wram and its echo, the unusable area, the ports and hram. *)

MaxMemSteps == 2

MemBytes == {\h00, \h0a, \h20, \h40, \ha0, \hc0, \he0, \hfe, \hff}

MemVals == {\h0a, \h20, \h55}

MemAddrs == {Mk16(h, l) : h \in MemBytes, l \in MemBytes}

InitMem == \E a \in MemVals : InitAfter(<<LD_A(a)>>)

RunMem == host.steps < MaxMemSteps /\ Step({\hea, \h3e}, {}, MemBytes, {})

NextMem == RunMem

SpecMem == InitMem /\ [][NextMem]_vars

\* The call c of cpu.run was LD (nn),A: its address, its value and the
\* machine it ran on.
Stored(c) == c.valid /\ c.op = \hea

StoreAddr(c) == Mk16(c.hi, c.lo)

StoreVal(c) == c.pre.cpu.a

Fetched(c) == Fetch(c.pre, c.op, c.lo, c.hi)

\* C12 (as stated): a ROM-bank-select write of 0x00, 0x20, 0x40 or 0x60
\* selects bank value+1, and reads in 4000-7FFF return the bytes of the
\* selected bank.
AliasBanks == {\h00, \h20, \h40, \h60}

BankProbe == {\h0000, \h000a, \h3fff}

C12_Claim ==
    Stored(last) /\ StoreAddr(last) \in \h2000 .. \h3fff
        /\ StoreVal(last) \in AliasBanks
    => \A k \in BankProbe :
          Read(gb, \h4000 + k) = rom((StoreVal(last) + 1) * \h4000 + k)

\* C13: a write to an address in 0000-7FFF completes without error and
\* leaves the ROM image unchanged: every read of a bank-0 address returns
\* the byte of the image, as before the write.
RomProbe == {a \in MemAddrs : a < \h4000}

C13_RomWritesIgnored ==
    Stored(last) /\ StoreAddr(last) < \h8000
    => /\ last.post.panic = ""
       /\ last.post.mm = Fetched(last).mm
       /\ \A a \in RomProbe :
             /\ Read(gb, a) = Read(Fetched(last), a)
             /\ a \notin DOMAIN gb.mm.rom => Read(gb, a) = rom(a)

\* 0x55 has been written to 0x2000, which still reads 0x20 as the image
\* does.
C13_Witness ==
    /\ Stored(last) /\ StoreAddr(last) = \h2000 /\ StoreVal(last) = \h55
    /\ gb.panic = ""
    /\ Read(gb, \h2000) = rom(\h2000)
    /\ Read(gb, \h2000) = \h20

\* C18: reads of the unusable area FEA0-FEFF and of the ports without a
\* register return 0; a write there changes no state (the instruction
\* only moves PC and the cycle counter) and raises no error.
Unbacked ==
    (\hfea0 .. \hfeff) \cup {\hff03} \cup (\hff08 .. \hff0e)
    \cup {\hff15, \hff1f} \cup (\hff27 .. \hff3f) \cup (\hff4c .. \hff7f)

UnbackedProbe ==
    (Unbacked \cap MemAddrs) \cup {\hfea0, \hfeff, \hff03, \hff7f}

C18_UnbackedReadsZero ==
    /\ \A a \in UnbackedProbe : Read(gb, a) = 0
    /\ Stored(last) /\ StoreAddr(last) \in Unbacked
       => /\ last.post.panic = ""
          /\ last.post = Advance(Fetched(last), 3, 16)

\* 0x55 has been written to 0xFEA0, which reads 0.
C18_Witness ==
    /\ Stored(last) /\ StoreAddr(last) = \hfea0 /\ StoreVal(last) = \h55
    /\ gb.panic = ""
    /\ Read(gb, \hfea0) = 0

\* C19: a read of E000+k returns what a read of C000+k returns, for every
\* k in 0..0x1DFF, and a write to either address is read back through
\* both.
EchoProbe == MemBytes \cup {\h1dff}

C19_EchoMirror ==
    /\ \A k \in EchoProbe : Read(gb, \he000 + k) = Read(gb, \hc000 + k)
    /\ Stored(last) /\ StoreAddr(last) \in \hc000 .. \hddff
       => /\ Read(gb, StoreAddr(last)) = StoreVal(last)
          /\ Read(gb, StoreAddr(last) + \h2000) = StoreVal(last)
    /\ Stored(last) /\ StoreAddr(last) \in \he000 .. \hfdff
       => /\ Read(gb, StoreAddr(last)) = StoreVal(last)
          /\ Read(gb, StoreAddr(last) - \h2000) = StoreVal(last)

\* 0x55 has been written to 0xE020 and is read at 0xC020.
C19_Witness ==
    /\ Stored(last) /\ StoreAddr(last) = \he020 /\ StoreVal(last) = \h55
    /\ Read(gb, \hc020) = \h55

\* C20 (as stated): once a value with low nibble 0xA has been written to
\* the low ROM range, a byte written to an address in A000-BFFF is
\* returned by a later read of that address.
C20_Claim ==
    /\ Stored(last2) /\ StoreAddr(last2) < \h2000
    /\ StoreVal(last2) % 16 = \h0a
    /\ Stored(last) /\ StoreAddr(last) \in \ha000 .. \hbfff
    => Read(gb, StoreAddr(last)) = StoreVal(last)

---------------------------------------------------------------------------
(* An image of NOPs: every opcode the cpu fetches is 0x00.                 *)

MaxNopSteps == 128

InitNop == Init

RunNop == host.steps < MaxNopSteps /\ Step({\h00}, {}, {}, {})

NextNop == RunNop

SpecNop == InitNop /\ [][NextNop]_vars

\* C14: on an image of NOPs, from PC = 0x100 with no interrupt pending,
\* after n steps PC = 0x100 + n, the cycle counter is 4n and no other
\* register has changed.
C14_NopSteps ==
    /\ gb.panic = ""
    /\ gb.cpu = [CpuNew EXCEPT !.pc = \h100 + host.steps,
                               !.cycles = 4 * host.steps]
    /\ host.prevcycles = 4 * host.steps

\* Four steps: PC = 0x104 and 16 cycles.
C14_Witness ==
    host.steps = 4 /\ gb.cpu.pc = \h104 /\ gb.cpu.cycles = 16

---------------------------------------------------------------------------
(* The register pairs.  set_af, set_bc, set_de and set_hl are applied to   *)
(* the cpu with values drawn from PairVals, as test_cpu applies them.      *)

MaxPairSteps == 2

Pairs == {"af", "bc", "de", "hl"}

PairVals ==
    {\h0000, \h2343, \h5432, \h9988, \h8743, \hffff, \h00ff, \hff0f, \h12f0}

set_pair(pair, c, v) ==
    CASE pair = "af" -> set_af(c, v)
      [] pair = "bc" -> set_bc(c, v)
      [] pair = "de" -> set_de(c, v)
      [] pair = "hl" -> set_hl(c, v)

get_pair(pair, c) ==
    CASE pair = "af" -> af(c)
      [] pair = "bc" -> bc(c)
      [] pair = "de" -> de(c)
      [] pair = "hl" -> hl(c)

\* The two registers of the pair, first and second.
pair_regs(pair, c) ==
    CASE pair = "af" -> <<c.a, c.f>>
      [] pair = "bc" -> <<c.b, c.c>>
      [] pair = "de" -> <<c.d, c.e>>
      [] pair = "hl" -> <<c.h, c.l>>

\* A call of set_af, set_bc, set_de or set_hl, recorded in last with the value in hi and lo.
PairCall(pair, v, pre, post) ==
    [valid |-> TRUE, op |-> pair, lo |-> Lo(v), hi |-> Hi(v),
     pre |-> pre, mid |-> pre, post |-> post]

SetPair(pair, v) ==
    /\ gb' = [gb EXCEPT !.cpu = set_pair(pair, @, v)]
    /\ last' = PairCall(pair, v, gb, [gb EXCEPT !.cpu = set_pair(pair, @, v)])
    /\ last2' = last
    /\ host' = [host EXCEPT !.steps = @ + 1]

InitPairs == Init

RunPairs ==
    /\ host.steps < MaxPairSteps
    /\ \E pair \in Pairs, v \in PairVals : SetPair(pair, v)

NextPairs == RunPairs

SpecPairs == InitPairs /\ [][NextPairs]_vars

PairVal(c) == Mk16(c.hi, c.lo)

---------------------------------------------------------------------------
(* The circular rotates.  rlc and rrc are applied to the cpu with every    *)
(* operand, as test_cpu applies them.                                      *)

MaxRotSteps == 1

Rotates == {"rlc", "rrc"}

rotate(f, c, val) ==
    CASE f = "rlc" -> rlc(c, val)
      [] f = "rrc" -> rrc(c, val)

\* A call of rlc or rrc, recorded in last with the operand in lo and the
\* value returned in hi.
RotCall(f, val, pre, r) ==
    [valid |-> TRUE, op |-> f, lo |-> val, hi |-> r.val,
     pre |-> pre, mid |-> pre, post |-> [pre EXCEPT !.cpu = r.cpu]]

Rotated(f, val, r) ==
    /\ gb' = [gb EXCEPT !.cpu = r.cpu]
    /\ last' = RotCall(f, val, gb, r)
    /\ last2' = last
    /\ host' = [host EXCEPT !.steps = @ + 1]

Rotate(f, val) == Rotated(f, val, rotate(f, gb.cpu, val))

InitRot == Init

RunRot ==
    /\ host.steps < MaxRotSteps
    /\ \E f \in Rotates, val \in 0 .. 255 : Rotate(f, val)

NextRot == RunRot

SpecRot == InitRot /\ [][NextRot]_vars

\* The byte rotated by one bit, and the bit that leaves it.
RotatedLeft(v) == ((2 * v) % 256) + (v \div 128)

RotatedRight(v) == (v \div 2) + 128 * (v % 2)

\* C16: rlc returns its operand rotated left by one bit circularly and rrc
\* returns it rotated right circularly, for every operand; Carry is set to
\* the bit rotated out.
C16_RlcRrc ==
    last.valid =>
        IF last.op = "rlc"
        THEN /\ last.hi = RotatedLeft(last.lo)
             /\ carry(gb.cpu) = (last.lo \div 128 = 1)
        ELSE /\ last.hi = RotatedRight(last.lo)
             /\ carry(gb.cpu) = (last.lo % 2 = 1)

\* rlc(150) = 45, with Carry set.
C16_Witness ==
    /\ last.valid /\ last.op = "rlc" /\ last.lo = 150 /\ last.hi = 45
    /\ carry(gb.cpu)

---------------------------------------------------------------------------
(* Opcodes outside the instruction set.                                    *)

\* The last call of cpu.run fetched the opcode last.op (the cpu was not
\* halted).
Ran == last.valid /\ ~last.pre.cpu.halt

\* C17 (first half): an opcode outside the instruction set ends the run
\* with the machine as the fetch found it, and no call of cpu.run follows
\* one that ended the run.
C17_UndefinedFatal ==
    /\ Ran /\ last.op \in UndefinedOps
       => /\ last.post = Panic(Fetched(last), "unknown instruction")
          /\ gb = last.post
    /\ last2.valid => last2.post.panic = ""

\* C17 (as stated): an opcode outside the instruction set puts the machine
\* in the fatal state with no register, flag, memory or cycle-counter
\* change, no later instruction executes, and every opcode of the
\* instruction set executes without entering the error state.
C17_Claim ==
    /\ C17_UndefinedFatal
    /\ Ran /\ last.op \notin UndefinedOps => last.post.panic = ""

---------------------------------------------------------------------------
(* OAM DMA.  A program stores a byte somewhere in memory and loads a page  *)
(* number into A; the cpu then stores A at 0xff46.                         *)

MaxDmaSteps == 2

DmaVals == {\h01, \h55, \hff}

DmaStores == {\h8000, \hc005, \hc09f, \hc0a0, \hfe10, \hff80}

DmaPages == {\h00, \h40, \h80, \hc0, \he0, \hfe, \hff}

LD_NN_A(nn) == <<\hea, Lo(nn), Hi(nn)>>

InitDma ==
    \E a \in DmaVals : \E s \in DmaStores : \E v \in DmaPages :
        InitAfter(<<LD_A(a), LD_NN_A(s), LD_A(v)>>)

RunDma == host.steps < MaxDmaSteps /\ Step({\he0}, {}, {\h46}, {})

NextDma == RunDma

SpecDma == InitDma /\ [][NextDma]_vars

\* The call c of cpu.run stored A at 0xff46.
Dma(c) == c.valid /\ c.op = \he0 /\ c.lo = \h46

\* Every byte of oam in the machine mid is the byte the machine pre reads
\* at the same offset of page v.
OamIsPage(pre, mid, v) ==
    \A i \in 0 .. \h9f : Read(mid, \hfe00 + i) = Read(pre, v * \h100 + i)

\* mid differs from pre in oam, pc and cycles only, and the cycles are the
\* 12 of the store.
OnlyOam(pre, mid) ==
    /\ \A x \in (DOMAIN pre.mm.mem \cup DOMAIN mid.mm.mem) \ OamRange :
          MemGet(mid.mm.mem, x) = MemGet(pre.mm.mem, x)
    /\ [mid EXCEPT !.mm.mem = EmptyMem, !.cpu = pre.cpu]
          = [pre EXCEPT !.mm.mem = EmptyMem]
    /\ mid.cpu = [pre.cpu EXCEPT !.pc = W16(@ + 2), !.cycles = @ + 12]

\* C21: a write of v to 0xff46 leaves oam[i] = read(v * 0x100 + i) for
\* every i in 0 .. 0x9f when the write returns, the instruction costs its
\* own 12 cycles and nothing else, and no other memory changes.
C21_DmaCopy ==
    Dma(last) =>
        /\ OamIsPage(Fetched(last), last.mid, last.pre.cpu.a)
        /\ OnlyOam(Fetched(last), last.mid)

\* A dma from page 0xc0 brought the last byte of the page's first 0xa0
\* into an oam that held zero there.
C21_Witness ==
    /\ Dma(last)
    /\ last.pre.cpu.a = \hc0
    /\ Read(last.pre, \hfe9f) = 0
    /\ Read(last.mid, \hfe9f) = \h55
    /\ Read(gb, \hfe9f) = \h55

---------------------------------------------------------------------------
(* The timer.  A program enables the interrupts or not, sets TMA, TIMA and *)
(* TAC; the cpu then runs NOPs and the host advances the timer after each. *)

MaxTimerSteps == 70

TimerTacs == 0 .. 7

TimerTimas == {\h00, \hfe, \hff}

TimerTmas == {\h00, \h80}

SetupTimer(first, tma, tima, tac) ==
    <<<<first, 0, 0>>, LD_A(tma), LDH_A(\h06), LD_A(tima), LDH_A(\h05),
      LD_A(tac), LDH_A(\h07)>>

InitTimer ==
    \E first \in {\h00, \hfb} : \E tma \in TimerTmas :
    \E tima \in TimerTimas : \E tac \in TimerTacs :
        InitAfter(SetupTimer(first, tma, tima, tac))

RunTimer == host.steps < MaxTimerSteps /\ Step({\h00}, {}, {}, {})

NextTimer == RunTimer

SpecTimer == InitTimer /\ [][NextTimer]_vars

\* The cycles the host handed to timer.run after the call c of cpu.run.
Advanced(c) == c.post.cpu.cycles - c.pre.cpu.cycles

\* C22 (as stated): DIV counts the 256-cycle periods of the time advanced,
\* modulo 256, whatever TAC holds (no instruction here writes DIV).
C22_Claim == gb.timer.div = (host.total \div 256) % 256

\* The cycles per TIMA increment the clock field of TAC selects.
Period(tac) ==
    CASE tac % 4 = 0 -> 1024
      [] tac % 4 = 1 -> 16
      [] tac % 4 = 2 -> 64
      [] tac % 4 = 3 -> 256

Enabled(tac) == (tac \div 4) % 2 = 1

\* TIMA after one more increment, reloaded from TMA on overflow.
Ticked(t) == IF t.tima = \hff THEN t.tma ELSE t.tima + 1

\* The timer t0 advanced by d cycles is t1, as far as TIMA and the cycles
\* accumulated towards its next increment go, with n cycles per increment.
TimaAdvance(t0, t1, d, n) ==
    IF ~Enabled(t0.tac) THEN t1.tima = t0.tima
    ELSE IF t0.last_tick + d >= n
         THEN t1.tima = Ticked(t0) /\ t1.last_tick = t0.last_tick + d - n
         ELSE t1.tima = t0.tima /\ t1.last_tick = t0.last_tick + d

\* C23 (as stated): while bit 2 of TAC is set TIMA increments once per N
\* accumulated cycles, N = 1024, 16, 64, 256 for TAC bits 1..0 = 0, 1, 2,
\* 3; while it is clear an advance of the timer leaves TIMA alone.
C23_Claim ==
    last.valid =>
        TimaAdvance(last.post.timer, gb.timer, Advanced(last),
                    Period(last.post.timer.tac))

\* An advance of the timer that increments TIMA from 0xff.
Overflows(t0, d) ==
    Enabled(t0.tac) /\ t0.tima = \hff
        /\ t0.last_tick + d >= cycles_per_tick(t0.tac)

TimerFlag(g) == And8(g.mm.interrupt_flag, INTERRUPT_TIMER) # 0

\* C24: an advance that increments TIMA from 0xff leaves TIMA = TMA, and
\* sets the Timer bit of IF exactly when IME is set.
C24_OverflowReload ==
    last.valid /\ Overflows(last.post.timer, Advanced(last)) =>
        /\ gb.timer.tima = last.post.timer.tma
        /\ TimerFlag(gb) <=>
              (TimerFlag(last.post) \/ last.post.mm.interrupt_master_enable)

\* TIMA overflowed with IME set and TMA = 0x80: TIMA holds 0x80 and the
\* Timer bit of IF went from clear to set.
C24_Witness ==
    /\ last.valid /\ Overflows(last.post.timer, Advanced(last))
    /\ last.post.mm.interrupt_master_enable
    /\ ~TimerFlag(last.post)
    /\ gb.timer.tima = \h80
    /\ TimerFlag(gb)

\* TIMA overflowed with IME clear: the Timer bit of IF stays clear.
C24_WitnessMasked ==
    /\ last.valid /\ Overflows(last.post.timer, Advanced(last))
    /\ ~last.post.mm.interrupt_master_enable
    /\ ~TimerFlag(gb)

---------------------------------------------------------------------------
(* The interrupts of the PPU.  A program enables the interrupts or not,    *)
(* writes LY, LYC and STAT and halts with IE = 0; the host then advances   *)
(* the PPU after every halted tick.                                        *)

MaxStatCycles == 1600

StatVals == {\h00, \h08, \h10, \h20, \h40, \h78}

StatLys == {\h00, \h8e, \hc8}

StatLycs == {\h01, \h8f, \h90}

SetupStat(first, ly, lyc, stat) ==
    <<<<first, 0, 0>>, LD_A(ly), LDH_A(\h44), LD_A(lyc), LDH_A(\h45),
      LD_A(stat), LDH_A(\h41), <<\h76, 0, 0>>>>

InitStat ==
    \E first \in {\h00, \hfb} : \E ly \in StatLys :
    \E lyc \in StatLycs : \E stat \in StatVals :
        InitAfter(SetupStat(first, ly, lyc, stat))

RunStat == host.total < MaxStatCycles /\ Step({}, {}, {}, {})

NextStat == RunStat

SpecStat == InitStat /\ [][NextStat]_vars

PpuFlags(g) ==
    And8(g.mm.interrupt_flag, Or8(INTERRUPT_VBLANK, INTERRUPT_LCD_STAT))

\* C25 (as stated): with IME clear an advance of the PPU leaves the VBlank
\* and LCDSTAT bits of IF as they were, whatever STAT enables.
C25_Claim ==
    last.valid /\ ~last.post.mm.interrupt_master_enable
        => PpuFlags(gb) = PpuFlags(last.post)

Mode(l) == And8(l.stat, LCD_STATUS_MODE)

StatBit(l, int) == And8(l.stat, int) # 0

Flag(f, int) == And8(f, int) # 0

\* The advance of the PPU l0 by d cycles is an end-of-Transfer edge.
EndOfTransfer(l0, d) == Mode(l0) = 3 /\ l0.cycles + d > 169

\* The advance of the PPU l0 by d cycles wraps LY to 0 in VBlank.
EndOfVBlank(l0, d) == Mode(l0) = 1 /\ l0.cycles + d > 456 /\ l0.ly = 255

\* LY and LYC of l1 coincide and STAT enables the coincidence interrupt.
Coincides(l1) ==
    StatBit(l1, LCD_STATUS_LY_COINCIDENCE_INTERRUPT) /\ l1.ly = l1.lyc

\* One advance of the PPU as the claim has it: l0, f0 and v0 are the PPU,
\* IF and the VBlank events seen by the host before it, l1, f1, v1 after.
EdgeAsStated(l0, f0, v0, ime, l1, f1, v1) ==
    /\ l1.ly = W8(l0.ly + 1)
    /\ IF l1.ly = 144
       THEN /\ Mode(l1) = 1
            /\ v1 = v0 + 1
            /\ Flag(f1, INTERRUPT_VBLANK)
                  <=> (Flag(f0, INTERRUPT_VBLANK) \/ ime)
            /\ Flag(f1, INTERRUPT_LCD_STAT)
                  <=> \/ Flag(f0, INTERRUPT_LCD_STAT)
                      \/ StatBit(l1, LCD_STATUS_MODE_1_VBLANK_INTERRUPT)
       ELSE /\ Mode(l1) = 0
            /\ v1 = v0
            /\ Flag(f1, INTERRUPT_VBLANK) <=> Flag(f0, INTERRUPT_VBLANK)
            /\ Flag(f1, INTERRUPT_LCD_STAT)
                  <=> \/ Flag(f0, INTERRUPT_LCD_STAT)
                      \/ StatBit(l1, LCD_STATUS_MODE_0_HBLANK_INTERRUPT)

\* The same advance as the code has it: VBlank is entered whenever the new
\* LY is 144 or more, and the coincidence of LY and LYC raises LCDSTAT too.
EdgeAsCoded(l0, f0, v0, ime, l1, f1, v1) ==
    /\ l1.ly = W8(l0.ly + 1)
    /\ IF l1.ly >= 144
       THEN /\ Mode(l1) = 1
            /\ v1 = v0 + 1
            /\ Flag(f1, INTERRUPT_VBLANK)
                  <=> (Flag(f0, INTERRUPT_VBLANK) \/ ime)
            /\ Flag(f1, INTERRUPT_LCD_STAT)
                  <=> \/ Flag(f0, INTERRUPT_LCD_STAT)
                      \/ StatBit(l1, LCD_STATUS_MODE_1_VBLANK_INTERRUPT)
                      \/ Coincides(l1)
       ELSE /\ Mode(l1) = 0
            /\ v1 = v0
            /\ Flag(f1, INTERRUPT_VBLANK) <=> Flag(f0, INTERRUPT_VBLANK)
            /\ Flag(f1, INTERRUPT_LCD_STAT)
                  <=> \/ Flag(f0, INTERRUPT_LCD_STAT)
                      \/ StatBit(l1, LCD_STATUS_MODE_0_HBLANK_INTERRUPT)
                      \/ Coincides(l1)

\* Mode 1 is entered on an end-of-Transfer edge only and left when LY
\* wraps to 0 only.
ModeOneRule(l0, d, l1) ==
    Mode(l1) = 1 <=>
        \/ EndOfTransfer(l0, d) /\ l1.ly >= 144
        \/ Mode(l0) = 1 /\ ~EndOfVBlank(l0, d)

---------------------------------------------------------------------------
(* HALT.                                                                   *)

\* The interrupt check finds an interrupt to service in the machine g.
Serviceable(g) == g.mm.interrupt_master_enable /\ PendingSources(g) # {}

\* The call c of cpu.run found the cpu halted.
HaltedTick(c) == c.valid /\ c.pre.cpu.halt

\* C27: HALT sets halt; a call of cpu.run that finds the cpu halted
\* fetches nothing and changes nothing but the cycle counter, which
\* advances by 16, and then makes the interrupt check; the check clears
\* halt exactly when IME is set and a source is pending in IE and IF, and
\* nothing else clears it.
C27_Halt ==
    /\ last.valid /\ ~last.pre.cpu.halt /\ last.op = \h76
          => last.mid.cpu.halt
    /\ HaltedTick(last)
          => [last.mid EXCEPT !.ovf = FALSE]
                = [last.pre EXCEPT !.cpu.cycles = @ + 16]
    /\ last.valid /\ last.mid.cpu.halt /\ last.post.panic = ""
          => /\ last.post.cpu.halt <=> ~Serviceable(last.mid)
             /\ ~Serviceable(last.mid)
                   => [last.post EXCEPT !.ovf = FALSE]
                         = [last.mid EXCEPT !.ovf = FALSE]
    /\ last.valid /\ last.post.panic = ""
          => /\ last.post.cpu.halt => last.mid.cpu.halt
             /\ gb.cpu = last.post.cpu

\* A halted tick whose interrupt check found the LCDSTAT interrupt with
\* IME set: the cpu left the halt for the vector 0x48.
C27_Witness ==
    /\ HaltedTick(last)
    /\ last.mid.cpu.pc = last.pre.cpu.pc
    /\ Serviceable(last.mid)
    /\ ~gb.cpu.halt
    /\ gb.cpu.pc = \h48

\* A halted tick that found nothing to service: the cpu stays halted.
C27_WitnessIdle ==
    /\ HaltedTick(last)
    /\ HaltedTick(last2)
    /\ ~Serviceable(last.mid)
    /\ gb.cpu.halt
    /\ gb.cpu.cycles = last2.pre.cpu.cycles + 32

---------------------------------------------------------------------------
(* STOP.                                                                   *)

\* C28 (as stated): STOP (0x10) is not fatal; it advances the cycle
\* counter by the 4 cycles of the shortest instruction, moves PC past the
\* instruction and changes nothing else.
C28_Claim ==
    Ran /\ last.op = \h10 =>
        /\ last.post.panic = ""
        /\ last.mid.cpu.cycles = last.pre.cpu.cycles + 4
        /\ last.mid.cpu.pc \in {W16(last.pre.cpu.pc + 1),
                                W16(last.pre.cpu.pc + 2)}
        /\ [last.mid EXCEPT !.cpu.pc = 0, !.cpu.cycles = 0, !.ovf = FALSE]
              = [Fetched(last) EXCEPT !.cpu.pc = 0, !.cpu.cycles = 0]

---------------------------------------------------------------------------
(* The cycle counter.                                                      *)

\* C29 (as stated): every call of cpu.run that returns, whether it ran an
\* instruction, HALT or a halted tick, returns a cycle count strictly
\* greater than the one the previous call returned.
C29_Claim ==
    last.valid /\ last.post.panic = ""
        => last.post.cpu.cycles > last.pre.cpu.cycles

---------------------------------------------------------------------------
(* PC and SP at the ends of the address space.                             *)

\* The pair a POP opcode loads, before set_af masks it.
Popped16(c) == Mk16(Read(c.pre, W16(c.pre.cpu.sp + 1)), Read(c.pre, c.pre.cpu.sp))

\* C30 (as stated): PC and SP arithmetic wraps modulo 65536 and never
\* faults: a push with SP in {0, 1} and a pop with SP in {0xfffe, 0xffff}
\* return with SP and PC at the wrapped values, the pop with the bytes at
\* the wrapped addresses.
C30_Claim ==
    last.valid /\ last.op \in PushOps \cup PopOps =>
        /\ last.post.panic = ""
        /\ last.post.cpu.pc = W16(last.pre.cpu.pc + 1)
        /\ last.op \in PushOps
              => last.post.cpu.sp = W16(last.pre.cpu.sp + U16 - 2)
        /\ last.op \in PopOps
              => /\ last.post.cpu.sp = W16(last.pre.cpu.sp + 2)
                 /\ last.op = \hc1 => bc(last.post.cpu) = Popped16(last)

---------------------------------------------------------------------------
(* SUB, SBC and CP.  A program sets A and F; the cpu then runs SUB n,      *)
(* SBC A,n or CP n with any operand.                                       *)

MaxSubSteps == 1

SubOps == {\hd6, \hde, \hfe}

InitSub == InitAlu

RunSub == host.steps < MaxSubSteps /\ Step(SubOps, {}, 0 .. 255, {})

NextSub == RunSub

SpecSub == InitSub /\ [][NextSub]_vars

\* The flags f are those of a - v - cy, and r is its value modulo 256.
Borrows(a, v, cy, r, f) ==
    /\ r = (a - v - cy + 512) % 256
    /\ (Bit(f, 7) = 1) <=> (r = 0)
    /\ Bit(f, 6) = 1
    /\ (Bit(f, 5) = 1) <=> ((a % 16) < (v % 16) + cy)
    /\ (Bit(f, 4) = 1) <=> (a < v + cy)
    /\ f % 16 = 0

\* The carry the opcode op subtracts along with its operand.
BorrowIn(op, f) == IF op = \hde THEN Bit(f, 4) ELSE 0

---------------------------------------------------------------------------
(* Rotates and shifts.  A program sets A, B and F; the cpu then runs       *)
(* RLCA, RRCA, RLA, RRA or a CB-prefixed rotate or shift.                  *)

MaxShiftSteps == 1

AccRots == {\h07, \h0f, \h17, \h1f}

\* CB 0x00-0x3f without SWAP (0x30-0x37).
CbShifts == (\h00 .. \h2f) \cup (\h38 .. \h3f)

InitShift == InitAlu

RunShift ==
    host.steps < MaxShiftSteps /\ Step(AccRots \cup {\hcb}, CbShifts, {}, {})

NextShift == RunShift

SpecShift == InitShift /\ [][NextShift]_vars

IsAccRot(c) == c.valid /\ c.op \in AccRots

IsCbShift(c) == c.valid /\ c.op = \hcb /\ c.lo \in CbShifts

\* The kind of the rotate or shift: rlc rrc rl rr sla sra - srl.
ShiftKind(c) == IF c.op = \hcb THEN (c.lo \div 8) % 8 ELSE c.op \div 8

ShiftOperand(c) == IF c.op = \hcb THEN GetR(c.pre, c.lo % 8) ELSE c.pre.cpu.a

\* The value v rotated or shifted, cin the carry before.
Shifted(k, v, cin) ==
    CASE k = 0 -> ((2 * v) % 256) + (v \div 128)
      [] k = 1 -> (v \div 2) + 128 * (v % 2)
      [] k = 2 -> ((2 * v) % 256) + cin
      [] k = 3 -> (v \div 2) + 128 * cin
      [] k = 4 -> (2 * v) % 256
      [] k = 5 -> (v \div 2) + 128 * (v \div 128)
      [] k = 7 -> v \div 2

\* The bit shifted out.
ShiftedOut(k, v) == IF k \in {0, 2, 4} THEN v \div 128 ELSE v % 2

\* The flags f after the rotate or shift of kind k on v gave r; the
\* rotates of the accumulator leave Zero clear.
ShiftFlags(acc, k, v, r, f) ==
    /\ (Bit(f, 7) = 1) <=> (~acc /\ r = 0)
    /\ Bit(f, 6) = 0
    /\ Bit(f, 5) = 0
    /\ Bit(f, 4) = ShiftedOut(k, v)
    /\ f % 16 = 0

\* C32: RLCA, RLA, RRCA and RRA leave Zero clear whatever the result, a
\* CB-prefixed rotate or shift sets Zero iff its result is 0; both clear
\* Subtract and HalfCarry, set Carry to the bit shifted out and store the
\* rotated or shifted value.
C32_Rotates ==
    (IsAccRot(last) \/ IsCbShift(last)) /\ last.post.panic = "" =>
        /\ ShiftFlags(IsAccRot(last), ShiftKind(last), ShiftOperand(last),
                      Shifted(ShiftKind(last), ShiftOperand(last),
                              Bit(last.pre.cpu.f, 4)),
                      last.post.cpu.f)
        /\ IsAccRot(last) \/ last.lo % 8 # 6
              => (IF last.op = \hcb THEN GetR(last.post, last.lo % 8)
                  ELSE last.post.cpu.a)
                    = Shifted(ShiftKind(last), ShiftOperand(last),
                              Bit(last.pre.cpu.f, 4))

\* RLA on A = 0x80 with Carry clear: A = 0 with Carry set and Zero clear.
C32_Witness ==
    /\ last.valid
    /\ last.op = \h17
    /\ last.pre.cpu.a = \h80
    /\ Bit(last.pre.cpu.f, 4) = 0
    /\ gb.cpu.a = 0
    /\ gb.cpu.f = \h10

\* RL A (CB 0x17) on the same cpu: A = 0 with Carry and Zero set.
C32_WitnessCb ==
    /\ last.valid
    /\ last.op = \hcb /\ last.lo = \h17
    /\ last.pre.cpu.a = \h80
    /\ Bit(last.pre.cpu.f, 4) = 0
    /\ gb.cpu.a = 0
    /\ gb.cpu.f = \h90

---------------------------------------------------------------------------
(* JR.  A program sets F and jumps to an address in ROM, where the cpu     *)
(* finds any JR with any displacement; or it stores a JR at 0xfffd, its    *)
(* displacement at 0xfffe, and jumps there.                                *)

MaxJrSteps == 1

JrOps == {\h18, \h20, \h28, \h30, \h38}

JrFlags == {\h00, \h80, \h10, \h90}

JrAddrs == {\h0010, \h0150, \h7ff0}

JrDisps == {\h00, \h01, \h02, \h7f, \h80, \he0, \hfe}

JP(nn) == <<\hc3, Lo(nn), Hi(nn)>>

InitJr ==
    \/ \E f \in JrFlags : \E p \in JrAddrs :
          InitAfter(SetAF(Mk16(0, f)) \o <<JP(p)>>)
    \/ \E f \in JrFlags : \E op \in JrOps : \E e \in JrDisps :
          InitAfter(SetAF(Mk16(0, f))
                    \o <<LD_A(op), LDH_A(\hfd), LD_A(e), LDH_A(\hfe),
                         JP(\hfffd)>>)

RunJr == host.steps < MaxJrSteps /\ Step(JrOps, {}, JrDisps, {})

NextJr == RunJr

SpecJr == InitJr /\ [][NextJr]_vars

IsJr(c) == c.valid /\ c.op \in JrOps

\* The condition of the JR opcode op holds under the flags f.
JrHolds(op, f) ==
    CASE op = \h18 -> TRUE
      [] op = \h20 -> Bit(f, 7) = 0
      [] op = \h28 -> Bit(f, 7) = 1
      [] op = \h30 -> Bit(f, 4) = 0
      [] op = \h38 -> Bit(f, 4) = 1

\* The byte e as a signed displacement.
Displacement(e) == IF e >= 128 THEN e - 256 ELSE e

\* The JR at p with displacement byte e, taken or not, left the cpu c1
\* from the cpu c0.
JrDone(c0, c1, e, taken) ==
    /\ c1.pc = IF taken THEN (c0.pc + 2 + Displacement(e) + 65536) % 65536
               ELSE c0.pc + 2
    /\ c1.cycles = c0.cycles + IF taken THEN 12 ELSE 8
    /\ c1 = [c0 EXCEPT !.pc = c1.pc, !.cycles = c1.cycles]

\* C33 (as stated): JR and JR cc at p with displacement e go to
\* (p + 2 + e) mod 65536 in 12 cycles when the condition holds and to p + 2
\* in 8 cycles when it does not, and leave the flags alone.
C33_Claim ==
    IsJr(last) =>
        /\ last.post.panic = ""
        /\ JrDone(last.pre.cpu, last.post.cpu, last.lo,
                  JrHolds(last.op, last.pre.cpu.f))

---------------------------------------------------------------------------
(* CALL, RST and RET.  A program sets SP and jumps to an address in ROM;   *)
(* the cpu then runs CALL nn or an RST, and a RET.                         *)

MaxCallSteps == 2

CallSPs == {\hfffe, \hd000, \he002, \hc001, \h4000}

CallAddrs == {\h0150, \h3ffd}

CallBytes == {\h00, \h02, \h60}

RstOps == {\hc7, \hcf, \hd7, \hdf, \he7, \hef, \hf7, \hff}

InitCall ==
    \E sp \in CallSPs : \E p \in CallAddrs : InitAfter(<<LD_SP(sp), JP(p)>>)

RunCall ==
    host.steps < MaxCallSteps
        /\ Step({\hcd, \hc9} \cup RstOps, {}, CallBytes, {})

NextCall == RunCall

SpecCall == InitCall /\ [][NextCall]_vars

\* The call c of cpu.run ran CALL nn or an RST.
IsCall(c) == c.valid /\ c.op \in {\hcd} \cup RstOps

\* The call c1 of cpu.run ran RET right after the call c0.
IsReturn(c0, c1) ==
    IsCall(c0) /\ c0.post.panic = "" /\ c1.valid /\ c1.op = \hc9

\* Where the call c goes, and where it returns to.
CallTarget(c) == IF c.op = \hcd THEN Mk16(c.hi, c.lo) ELSE c.op - \hc7

ReturnAddr(c) == c.pre.cpu.pc + IF c.op = \hcd THEN 3 ELSE 1

\* The two bytes below the stack pointer sp are in writable RAM.
StackInRam(sp) == InRam(W16(sp + U16 - 1)) /\ InRam(W16(sp + U16 - 2))

\* The word on top of the stack of the machine g.
StackTop(g) == Mk16(Read(g, W16(g.cpu.sp + 1)), Read(g, g.cpu.sp))

\* The call c0 pushed its return address and went to its target, and the
\* RET c1 that followed it at once went back with SP as it was.
CallThenRet(c0, c1) ==
    /\ IsCall(c0)
          => /\ c0.post.panic = ""
             /\ c0.post.cpu.pc = CallTarget(c0)
             /\ c0.post.cpu.sp = W16(c0.pre.cpu.sp + U16 - 2)
             /\ StackTop(c0.post) = ReturnAddr(c0)
    /\ IsReturn(c0, c1)
          => /\ c1.post.panic = ""
             /\ c1.post.cpu.pc = ReturnAddr(c0)
             /\ c1.post.cpu.sp = c0.pre.cpu.sp

---------------------------------------------------------------------------
(* The mode edges of the PPU, over the frame of SpecLcd.                   *)

\* The cycles after which the PPU leaves the mode m, or ends a line of it.
Threshold(m) ==
    CASE m = 0 -> 201
      [] m = 1 -> 456
      [] m = 2 -> 77
      [] m = 3 -> 169

ModeEdges == {<<2, 3>>, <<3, 0>>, <<3, 1>>, <<0, 2>>, <<1, 0>>, <<1, 2>>}

\* An advance of d cycles took the PPU from l0 to l1: the mode moved along
\* an edge of the state machine or not at all, and when the edge was due
\* the mode changed (in VBlank, the line ended) and the threshold was
\* taken off the counter; otherwise nothing but the counter moved.
EdgeRule(l0, l1, d, due) ==
    /\ Mode(l1) # Mode(l0) => <<Mode(l0), Mode(l1)>> \in ModeEdges
    /\ IF due
       THEN /\ l1.cycles = l0.cycles + d - Threshold(Mode(l0))
            /\ IF Mode(l0) = 1
               THEN l1.ly = W8(l0.ly + 1)
               ELSE Mode(l1) # Mode(l0)
       ELSE /\ l1.cycles = l0.cycles + d
            /\ Mode(l1) = Mode(l0)
            /\ l1.ly = l0.ly

\* The counter of the PPU l0, advanced by d cycles, reaches the threshold.
Reaches(l0, d) == l0.cycles + d >= Threshold(Mode(l0))

\* The counter of the PPU l0, advanced by d cycles, exceeds the threshold.
Exceeds(l0, d) == l0.cycles + d > Threshold(Mode(l0))

\* C35: with no write to STAT the mode changes only along the edges
\* 2->3, 3->0, 3->1, 0->2 and 1->0/2, each edge fires once the cycles
\* accumulated in the mode reach its threshold (77, 169, 201, 456 a line
\* of VBlank), and the threshold is subtracted from the counter.
C35_Claim ==
    last.valid /\ gb.panic = "" =>
        EdgeRule(last.post.lcd, gb.lcd, Advanced(last),
                 Reaches(last.post.lcd, Advanced(last)))

\* What Lcd::run does: the edge fires once the counter exceeds the
\* threshold.
C35_EdgeWhenExceeded ==
    last.valid /\ gb.panic = "" =>
        EdgeRule(last.post.lcd, gb.lcd, Advanced(last),
                 Exceeds(last.post.lcd, Advanced(last)))


---------------------------------------------------------------------------
(* Stores to the registers of the PPU: LD A,n and LDH (n),A with the       *)
(* ports of STAT and LY among the operands.                                *)

MaxPortSteps == 4

PortLycs == {\h00, \h44}

PortBytes == {\h41, \h44, \h83}

InitPort == \E lyc \in PortLycs : InitAfter(<<LD_A(lyc), LDH_A(\h45)>>)

RunPort == host.steps < MaxPortSteps /\ Step({\h3e, \he0}, {}, PortBytes, {})

NextPort == RunPort

SpecPort == InitPort /\ [][NextPort]_vars

\* The call c of cpu.run stored A to the port n of page 0xff.
StoredTo(c, n) ==
    c.valid /\ ~c.pre.cpu.halt /\ c.op = \he0 /\ c.lo = n
            /\ c.post.panic = ""

\* The bits of STAT that the PPU owns: the mode and the coincidence flag.
StatusBits(l) == And8(l.stat, Or8(LCD_STATUS_MODE, LCD_STATUS_COINCIDENCE))

\* C36: LY, the mode bits of STAT and its coincidence flag are read-only
\* to the CPU: a store to 0xFF44 leaves LY as it was, a store to 0xFF41
\* changes none of bits 2..0 of STAT, and the coincidence flag is set
\* exactly when LY = LYC.
C36_Claim ==
    /\ StoredTo(last, \h44) => last.post.lcd.ly = last.pre.lcd.ly
    /\ StoredTo(last, \h41) =>
          StatusBits(last.post.lcd) = StatusBits(last.pre.lcd)
    /\ (And8(gb.lcd.stat, LCD_STATUS_COINCIDENCE) # 0)
          <=> (gb.lcd.ly = gb.lcd.lyc)

\* The store to 0xFF44 alone.
C36_LyKept == StoredTo(last, \h44) => last.post.lcd.ly = last.pre.lcd.ly

\* The store to 0xFF41 alone.
C36_StatusKept ==
    StoredTo(last, \h41) =>
        StatusBits(last.post.lcd) = StatusBits(last.pre.lcd)


---------------------------------------------------------------------------
(* The master enable.                                                      *)

Ime(g) == g.mm.interrupt_master_enable

VectorSet == {Vectors[i] : i \in 1 .. 5}

\* The call c of cpu.run came to its interrupt check and returned.
Checked(c) == c.valid /\ c.post.panic = ""

\* The instruction of the call c, when it ran one.
RanOp(c, ops) == ~c.pre.cpu.halt /\ c.op \in ops

\* With IME clear at the check, the check changes nothing: IF, SP, the
\* stack, PC and IME are as the instruction left them.
MaskedCheck(c) == Checked(c) /\ ~Ime(c.mid) => c.post = c.mid

\* The instruction changes IME only by EI and RETI, which set it, and by
\* DI, which clears it; the check only clears it, when it services a
\* source; EI and RETI take effect for the check of their own step.
ImeChanges(c) ==
    Checked(c) =>
        /\ Ime(c.mid) # Ime(c.pre) => RanOp(c, {\hfb, \hd9, \hf3})
        /\ RanOp(c, {\hfb, \hd9}) => Ime(c.mid)
        /\ RanOp(c, {\hf3}) => ~Ime(c.mid)
        /\ Ime(c.post) # Ime(c.mid) =>
              ~Ime(c.post) /\ c.post.cpu.pc \in VectorSet
        /\ RanOp(c, {\hfb, \hd9}) /\ PendingSources(c.mid) # {} =>
              ~Ime(c.post) /\ c.post.cpu.pc \in VectorSet

\* C37: while IME is clear the interrupt check services nothing, whatever
\* IE and IF are; IME is set only by EI and RETI, in time for the check of
\* the same step, and cleared only by DI and by the service of an
\* interrupt; the PPU, the timer and the joypad leave it alone.
C37_ImeGate ==
    /\ MaskedCheck(last)
    /\ ImeChanges(last)
    /\ Checked(last) => Ime(gb) = Ime(last.post)

\* A NOP ran with IME clear and a source pending in IE and IF: nothing
\* was serviced and the next instruction follows.
C37_Witness ==
    /\ Checked(last) /\ RanOp(last, {\h00})
    /\ ~Ime(last.mid) /\ PendingSources(last.mid) # {}
    /\ last.post.cpu.pc = last.pre.cpu.pc + 1
    /\ last.post.mm.interrupt_flag = last.pre.mm.interrupt_flag

\* EI ran with IME clear and VBlank pending: the check of the same step
\* serviced it.
C37_WitnessEi ==
    /\ Checked(last) /\ RanOp(last, {\hfb})
    /\ ~Ime(last.pre) /\ Ime(last.mid) /\ ~Ime(last.post)
    /\ last.post.cpu.pc = \h40


---------------------------------------------------------------------------
(* The length of the instructions.                                         *)

\* The instructions that set PC themselves: JR, JP, CALL, RET, RETI, RST.
TransferOps ==
    {\h18, \h20, \h28, \h30, \h38,
     \hc2, \hc3, \hca, \hd2, \hda, \he9,
     \hc4, \hcc, \hcd, \hd4, \hdc,
     \hc0, \hc8, \hc9, \hd0, \hd8, \hd9} \cup RstOps

\* The bytes of the instruction op: the opcode, and its immediate operand
\* of 8 or 16 bits (for 0xcb, the second opcode byte).
Length(op) == 1 + (IF NeedsLo(op) THEN 1 ELSE 0) + (IF NeedsHi(op) THEN 1 ELSE 0)

\* The call c of cpu.run ran an instruction that is no control transfer
\* and came to the end of it.
RanStraight(c) ==
    c.valid /\ ~c.pre.cpu.halt /\ c.op \notin TransferOps /\ c.mid.panic = ""

\* C38: an instruction that is no control transfer advances PC by its
\* length: 1 without an immediate operand, 2 with an 8-bit one or the 0xcb
\* prefix, 3 with a 16-bit one; ADD HL,SP and DEC SP advance it by 1.
C38_Claim ==
    RanStraight(last) => last.mid.cpu.pc = last.pre.cpu.pc + Length(last.op)

\* The same for every instruction but ADD HL,SP and DEC SP.
C38_OtherLengths ==
    RanStraight(last) /\ last.op \notin {\h39, \h3b} =>
        last.mid.cpu.pc = last.pre.cpu.pc + Length(last.op)


---------------------------------------------------------------------------
(* HALT with the interrupts disabled.  A program enables every source in   *)
(* IE, sets STAT and the timer, runs DI or EI and halts; the host then     *)
(* advances the PPU and the timer and delivers key events.                 *)

MaxHaltCycles == 700

HaltStats == {\h00, \h20}

HaltTacs == {\h00, \h05}

HaltKeys == {"a"}

SetupHalted(first, stat, tac) ==
    <<LD_A(\hff), LDH_A(\hff), LDH_A(\h05), LD_A(stat), LDH_A(\h41),
      LD_A(tac), LDH_A(\h07), <<first, 0, 0>>, <<\h76, 0, 0>>>>

InitHalt ==
    \E first \in {\hf3, \hfb} : \E stat \in HaltStats : \E tac \in HaltTacs :
        InitAfter(SetupHalted(first, stat, tac))

RunHalt == host.total < MaxHaltCycles /\ Step({\h00}, {}, {}, HaltKeys)

NextHalt == RunHalt

SpecHalt == InitHalt /\ [][NextHalt]_vars

\* The cpu of the machine g is halted with IME clear.
HaltedMasked(g) == g.cpu.halt /\ ~Ime(g) /\ g.panic = ""

C39_WitnessWoken ==
    /\ HaltedTick(last) /\ Ime(last.pre)
    /\ ~gb.cpu.halt /\ gb.cpu.pc = \h48


---------------------------------------------------------------------------
(* The timer under instructions of 4, 20 and 24 cycles: NOP, LD (nn),SP    *)
(* and CALL nn, with TIMA and the tick accumulator starting from 0.        *)

MaxTickSteps == 6

TickTacs == {\h05, \h06}

TickOps == {\h00, \h08, \hcd}

TickBytes == {\hc0}

InitTick == \E tac \in TickTacs : InitAfter(SetupTimer(\h00, \h00, \h00, tac))

RunTick == host.steps < MaxTickSteps /\ Step(TickOps, {}, TickBytes, {})

NextTick == RunTick

SpecTick == InitTick /\ [][NextTick]_vars

\* The cycles SetupTimer takes before the store to TAC that starts the
\* timer: a NOP, three LD A,n and two LDH (n),A.
TimerStart == 4 + 3 * 8 + 2 * 12

\* The cycles the timer was advanced by since it was started.
TimerCycles == host.total - TimerStart

\* C40: no tick of the timer is lost or deferred: with the timer enabled
\* and TAC unchanged, after advances of 4 to 24 cycles totalling C cycles
\* TIMA has been incremented floor(C / N) times for the period N of TAC
\* (16 among them), and the tick accumulator is below N after every
\* advance.
C40_Claim ==
    gb.panic = "" /\ Enabled(gb.timer.tac) =>
        /\ gb.timer.tima = (TimerCycles \div Period(gb.timer.tac)) % 256
        /\ gb.timer.last_tick < Period(gb.timer.tac)

\* What Timer::run keeps: every cycle is counted, in TIMA or in the
\* accumulator.
C40_Conserved ==
    gb.panic = "" /\ Enabled(gb.timer.tac) =>
        gb.timer.tima * Period(gb.timer.tac) + gb.timer.last_tick
            = TimerCycles

=============================================================================
